---- MODULE Spec2Model ----
(***************************************************************************)
(* Verification model of quikcess/canvas-drawer: the positioning resolver  *)
(* (calculatePosition), the style helpers (parseBorderRadius), the cache   *)
(* managers (both generations of CacheManager), the Image() post-processor *)
(* and the class based drawing session (CanvasDrawer and its renderers).   *)
(***************************************************************************)
EXTENDS Integers, Sequences, FiniteSets, TLC

VARIABLES
  arg,            \* argument of the pure function under test
  res,            \* its result, NoResult until it has been applied
  version,        \* which CacheManager module is loaded
  cache,          \* CacheManager `cache`: partition -> (key -> entry)
  now,            \* Date.now()
  errorImage,     \* part_010 module variable `errorImage`
  task,           \* the call suspended at an await, Idle when none
  out,            \* observation of the call that completed last
  canvas,         \* CanvasDrawer.canvas size and context identity
  lastReference,  \* CanvasDrawer.lastReference
  returned,       \* descriptor most recently returned by a renderer
  prev,           \* observation of the draw call before `out`
  failedAt        \* key -> time its latest fetch failed (unset once one succeeds)

vars == <<arg, res, version, cache, now, errorImage, task, out,
          canvas, lastReference, returned, prev, failedAt>>

(***************************************************************************)
(* JavaScript values.  Every value is a record of one shape so that values *)
(* of different JavaScript types can be compared: k is the type tag, n the *)
(* number (fixed point, Unit steps per pixel), s the string as a sequence  *)
(* of one-character strings.                                               *)
(***************************************************************************)
Unit == 2 * 2

Px(p) == p * Unit

Num(n) == [k |-> "number", n |-> n, s |-> << >>]

Str(s) == [k |-> "string", n |-> 0, s |-> s]

Undefined == [k |-> "undefined", n |-> 0, s |-> << >>]

Null == [k |-> "null", n |-> 0, s |-> << >>]

NaN == [k |-> "NaN", n |-> 0, s |-> << >>]

\* a number finer than the fixed-point resolution of the model
Unrepresentable == [k |-> "subunit", n |-> 0, s |-> << >>]

IsNum(v) == v.k = "number"

\* JavaScript truthiness of a primitive value
Truthy(v) ==
  CASE v.k = "number" -> v.n # 0
    [] v.k = "string" -> v.s # << >>
    [] v.k = "subunit" -> TRUE
    [] OTHER -> FALSE

\* a || b
OrElse(a, b) == IF Truthy(a) THEN a ELSE b

\* numeric operators; a non-number operand gives NaN
Arith(a, b, n) ==
  IF a.k = "subunit" \/ b.k = "subunit" THEN Unrepresentable
  ELSE IF IsNum(a) /\ IsNum(b) THEN Num(n) ELSE NaN

Add(a, b) == Arith(a, b, a.n + b.n)

Sub(a, b) == Arith(a, b, a.n - b.n)

Twice(a) == Arith(a, a, 2 * a.n)

Half(a) ==
  IF IsNum(a) /\ a.n % 2 # 0 THEN Unrepresentable
  ELSE Arith(a, a, a.n \div 2)

Representable(v) == v.k # "subunit"

(***************************************************************************)
(* String.prototype.toLowerCase                                            *)
(***************************************************************************)
UpperCase == <<"A", "B", "C", "D", "E", "F", "G", "H", "I", "J", "K", "L", "M",
               "N", "O", "P", "Q", "R", "S", "T", "U", "V", "W", "X", "Y", "Z">>

LowerCase == <<"a", "b", "c", "d", "e", "f", "g", "h", "i", "j", "k", "l", "m",
               "n", "o", "p", "q", "r", "s", "t", "u", "v", "w", "x", "y", "z">>

toLowerChar(c) ==
  IF \E i \in 1..Len(UpperCase) : UpperCase[i] = c
  THEN LowerCase[CHOOSE i \in 1..Len(UpperCase) : UpperCase[i] = c]
  ELSE c

toLowerCase(s) == [i \in 1..Len(s) |-> toLowerChar(s[i])]

center == <<"c", "e", "n", "t", "e", "r">>

\* typeof v === 'string' && v.toLowerCase() === 'center'
isCenterCaseBlind(v) == v.k = "string" /\ v.s = center

isCenter(v) == v.k = "string" /\ toLowerCase(v.s) = center

(***************************************************************************)
(* Geometry descriptors and the `reference` option                         *)
(***************************************************************************)
Descriptor(x, y, width, height, radius, shape) ==
  [x |-> x, y |-> y, width |-> width, height |-> height,
   radius |-> radius, shape |-> shape]

NoDescriptor == Descriptor(Undefined, Undefined, Undefined, Undefined, Undefined, "")

\* options.reference left out
NoRef == [k |-> "undefined", d |-> NoDescriptor]

\* options.reference === 'auto'
AutoRef == [k |-> "auto", d |-> NoDescriptor]

\* options.reference is a captured descriptor
ObjRef(d) == [k |-> "object", d |-> d]

\* a null or undefined lastReference
NullRef == [k |-> "null", d |-> NoDescriptor]

UndefinedRef == [k |-> "undefined", d |-> NoDescriptor]

\* reference === 'auto' ? lastReference || null : reference
referenceNowIgnoringAuto(reference, last) == reference

referenceNow(reference, last) ==
  IF reference.k = "auto"
  THEN (IF last.k = "object" THEN last ELSE NullRef)
  ELSE reference

\* (referenceNow.width || referenceNow.radius || 0)
refExtent(size, radius) == OrElse(OrElse(size, radius), Num(0))

(***************************************************************************)
(* calculatePosition of CanvasHelper.js; a is the argument object with the *)
(* canvas size W, H of a.ctx                                               *)
(***************************************************************************)
NoPosition == [posX |-> Undefined, posY |-> Undefined, divWidth |-> Undefined,
               divHeight |-> Undefined, circleRadius |-> Undefined]

\* destructuring default `x = 0`
orZero(v) == IF v.k = "undefined" THEN Num(0) ELSE v

\* typeof x === 'string' ? 0 : x
startAt(v) == IF v.k = "string" THEN Num(0) ELSE v

rectangleAxis(v, canvasSize, own, ref, refPos, refSize, refRadius) ==
  LET centred == isCenter(v)
      p0 == startAt(v)
      p1 == IF centred THEN Half(Sub(canvasSize, own)) ELSE p0
  IN IF ref.k = "object" /\ centred /\ refPos.k # "undefined"
     THEN Add(refPos, Half(Sub(refExtent(refSize, refRadius), own)))
     ELSE p1

circleAxis(v, canvasSize, ref, refPos, refSize, refRadius) ==
  LET centred == isCenter(v)
      p0 == startAt(v)
      p1 == IF centred THEN Half(canvasSize) ELSE p0
  IN IF ref.k = "object" /\ centred /\ refPos.k # "undefined"
     THEN Add(refPos, Half(refExtent(refSize, refRadius)))
     ELSE p1

lineAxisX(v, canvasSize, ref, refPos, refSize, refRadius) ==
  LET centred == isCenter(v)
      p0 == startAt(v)
      p1 == IF centred THEN Half(canvasSize) ELSE p0
  IN IF ref.k = "object" /\ centred
     THEN Add(refPos, Half(refExtent(refSize, refRadius)))
     ELSE p1

lineAxisY(v, canvasSize, lineWidth, ref, refPos, refSize, refRadius) ==
  LET centred == isCenter(v)
      p0 == startAt(v)
      p1 == IF centred THEN Half(canvasSize) ELSE p0
  IN IF ref.k = "object" /\ centred
     THEN Add(Add(refPos, Half(refExtent(refSize, refRadius))), Half(lineWidth))
     ELSE p1

triangleAxis(v, canvasSize, size, borderWidth, ref, refPos, refSize, refRadius) ==
  LET centred == isCenter(v)
      p0 == startAt(v)
      p1 == IF centred
            THEN Half(Sub(Sub(canvasSize, size), Twice(borderWidth)))
            ELSE p0
  IN IF ref.k = "object" /\ centred
     THEN Sub(Sub(Add(refPos, Half(refExtent(refSize, refRadius))), Half(size)),
              borderWidth)
     ELSE p1

calculatePosition(a) ==
  LET x == orZero(a.x)
      y == orZero(a.y)
      ref == referenceNow(a.reference, a.lastReference)
      d == ref.d
  IN CASE a.shape = "rectangle" ->
            [NoPosition EXCEPT
               !.posX = rectangleAxis(x, a.W, a.width, ref, d.x, d.width, d.radius),
               !.posY = rectangleAxis(y, a.H, a.height, ref, d.y, d.height, d.radius),
               !.divWidth = a.width,
               !.divHeight = a.height]
       [] a.shape = "circle" ->
            [NoPosition EXCEPT
               !.posX = circleAxis(x, a.W, ref, d.x, d.width, d.radius),
               !.posY = circleAxis(y, a.H, ref, d.y, d.height, d.radius),
               !.circleRadius = Half(a.radius)]
       [] a.shape = "line" ->
            [NoPosition EXCEPT
               !.posX = lineAxisX(x, a.W, ref, d.x, d.width, d.radius),
               !.posY = lineAxisY(y, a.H, a.lineWidth, ref, d.y, d.height, d.radius)]
       [] a.shape = "triangle" ->
            [NoPosition EXCEPT
               !.posX = triangleAxis(x, a.W, a.size, a.borderWidth, ref,
                                     d.x, d.width, d.radius),
               !.posY = triangleAxis(y, a.H, a.size, a.borderWidth, ref,
                                     d.y, d.height, d.radius)]
       [] OTHER ->
            [NoPosition EXCEPT !.posX = startAt(x), !.posY = startAt(y)]

(***************************************************************************)
(* parseFloat, String.prototype.trim and split(/\s+/) on strings over the   *)
(* characters used here: digits, '-', blank, and letters                   *)
(***************************************************************************)
Digits == <<"0", "1", "2", "3", "4", "5", "6", "7", "8", "9">>

IsDigit(c) == \E i \in 1..Len(Digits) : Digits[i] = c

DigitValue(c) == (CHOOSE i \in 1..Len(Digits) : Digits[i] = c) - 1

IsSpace(c) == c = " "

RECURSIVE skipSpaces(_)
skipSpaces(s) ==
  IF s # << >> /\ IsSpace(Head(s)) THEN skipSpaces(Tail(s)) ELSE s

RECURSIVE dropTrailingSpaces(_)
dropTrailingSpaces(s) ==
  IF s # << >> /\ IsSpace(s[Len(s)])
  THEN dropTrailingSpaces(SubSeq(s, 1, Len(s) - 1))
  ELSE s

trim(s) == dropTrailingSpaces(skipSpaces(s))

\* the leading run of digits of s, as <<number of digits, value>>
RECURSIVE leadingDigits(_, _, _)
leadingDigits(s, count, value) ==
  IF s # << >> /\ IsDigit(Head(s))
  THEN leadingDigits(Tail(s), count + 1, 10 * value + DigitValue(Head(s)))
  ELSE <<count, value>>

parseFloatString(s) ==
  LET t == skipSpaces(s)
      negative == t # << >> /\ Head(t) = "-"
      body == IF negative THEN Tail(t) ELSE t
      run == leadingDigits(body, 0, 0)
  IN IF run[1] = 0 THEN NaN
     ELSE Num(IF negative THEN 0 - Px(run[2]) ELSE Px(run[2]))

\* parseFloat(v): a number converts to itself, a string is parsed
parseFloat(v) ==
  CASE v.k = "number" -> v
    [] v.k = "subunit" -> v
    [] v.k = "string" -> parseFloatString(v.s)
    [] OTHER -> NaN

\* s.split(/\s+/): the pieces between maximal runs of blanks
RECURSIVE splitBlanks(_, _, _)
splitBlanks(s, piece, pieces) ==
  IF s = << >> THEN Append(pieces, piece)
  ELSE IF IsSpace(Head(s))
       THEN splitBlanks(skipSpaces(s), << >>, Append(pieces, piece))
       ELSE splitBlanks(Tail(s), Append(piece, Head(s)), pieces)

(***************************************************************************)
(* parseBorderRadius of CanvasHelper.js                                    *)
(***************************************************************************)
\* an array; its elements are in `a`
Arr(elements) == [k |-> "array", n |-> 0, s |-> << >>, a |-> elements]

ZeroRadii == <<Num(0), Num(0), Num(0), Num(0)>>

\* the if/else chain on parts.length; warn is the console.warn of the else
expandShorthandThreeAsFirst(parts) ==
  CASE Len(parts) = 1 -> [values |-> <<parts[1], parts[1], parts[1], parts[1]>>, warned |-> FALSE]
    [] Len(parts) = 2 -> [values |-> <<parts[1], parts[2], parts[1], parts[2]>>, warned |-> FALSE]
    [] Len(parts) = 3 -> [values |-> <<parts[1], parts[2], parts[3], parts[1]>>, warned |-> FALSE]
    [] Len(parts) = 4 -> [values |-> parts, warned |-> FALSE]
    [] OTHER -> [values |-> ZeroRadii, warned |-> TRUE]

expandShorthand(parts) ==
  CASE Len(parts) = 1 -> [values |-> <<parts[1], parts[1], parts[1], parts[1]>>, warned |-> FALSE]
    [] Len(parts) = 2 -> [values |-> <<parts[1], parts[2], parts[1], parts[2]>>, warned |-> FALSE]
    [] Len(parts) = 3 -> [values |-> <<parts[1], parts[2], parts[3], parts[2]>>, warned |-> FALSE]
    [] Len(parts) = 4 -> [values |-> parts, warned |-> FALSE]
    [] OTHER -> [values |-> ZeroRadii, warned |-> TRUE]

parseBorderRadius(borderRadius) ==
  CASE borderRadius.k = "string" ->
         LET pieces == splitBlanks(trim(borderRadius.s), << >>, << >>)
         IN expandShorthand([i \in 1..Len(pieces) |-> parseFloatString(pieces[i])])
    [] borderRadius.k \in {"number", "subunit"} ->
         [values |-> <<borderRadius, borderRadius, borderRadius, borderRadius>>,
          warned |-> FALSE]
    [] borderRadius.k = "NaN" ->
         [values |-> ZeroRadii, warned |-> TRUE]
    [] borderRadius.k = "array" ->
         expandShorthand([i \in 1..Len(borderRadius.a) |-> parseFloat(borderRadius.a[i])])
    [] OTHER -> [values |-> ZeroRadii, warned |-> TRUE]

(***************************************************************************)
(* Values the variables hold while the part they belong to is not running  *)
(***************************************************************************)
NoArg == [fn |-> "none"]

NoResult == [done |-> FALSE]

Idle == [op |-> "idle"]

NoCall == [op |-> "none"]

NoCanvas == [W |-> Num(0), H |-> Num(0), drawer |-> "none", calls |-> 0]

EmptyMap == [k \in {} |-> 0]

Put(m, k, e) == [y \in DOMAIN m \cup {k} |-> IF y = k THEN e ELSE m[y]]

\* an image as loadImage resolves it; `edit` names the post-processing
LoadedImage(url) == [kind |-> "image", src |-> url, edit |-> ""]

\* the value of a variable that was never assigned
UndefinedImage == [kind |-> "undefined", src |-> "", edit |-> ""]

FunctionsIdle == arg = NoArg /\ res = NoResult

CacheIdle ==
  /\ version = "none" /\ cache = EmptyMap /\ now = 0
  /\ errorImage = UndefinedImage /\ task = Idle /\ out = NoCall
  /\ failedAt = EmptyMap

SessionIdle ==
  /\ canvas = NoCanvas /\ lastReference = NullRef /\ returned = NullRef
  /\ prev = NoCall

RestIdle == CacheIdle /\ SessionIdle

(***************************************************************************)
(* Positioning resolver: calculatePosition applied to bounded arguments    *)
(***************************************************************************)
CenterSpellings ==
  { center,
    <<"C", "e", "n", "t", "e", "r">>,
    <<"C", "E", "N", "T", "E", "R">>,
    <<"c", "E", "n", "T", "e", "R">> }

PosXValues ==
  {Undefined, Num(Px(10)), Num(Px(33)), Str(<<"l", "e", "f", "t">>)}
    \cup {Str(s) : s \in CenterSpellings}

PosYValues ==
  {Num(Px(10)), Str(center), Str(<<"C", "E", "N", "T", "E", "R">>),
   Str(<<"c", "e", "n", "t", "r", "e">>)}

\* width and height (or radius, or size) of the shape being placed
PosSizes == {<<Px(50), Px(50)>>, <<Px(20), Px(20)>>, <<Px(25), Px(20)>>}

PosCanvases == {<<Px(200), Px(100)>>, <<Px(801), Px(600)>>}

\* descriptors as the renderers return them, and one that lacks x and width
PosReferences ==
  { Descriptor(Num(Px(10)), Num(Px(10)), Num(Px(100)), Num(Px(60)), Undefined, "rectangle"),
    Descriptor(Num(Px(60)), Num(Px(40)), Num(Px(40)), Num(Px(40)), Num(Px(20)), "circle"),
    Descriptor(Num(Px(10)), Num(Px(10)), Num(0), Num(Px(40)), Undefined, "line"),
    Descriptor(Undefined, Num(Px(10)), Undefined, Num(Px(60)), Undefined, "") }

PosShapes == {"rectangle", "circle", "line", "triangle"}

PosArgs ==
  { [fn |-> "calculatePosition", shape |-> sh, x |-> x, y |-> y,
     width |-> Num(sz[1]), height |-> Num(sz[2]), radius |-> Num(sz[1]),
     size |-> Num(sz[1]), borderWidth |-> Num(Px(2)), lineWidth |-> Num(Px(1)),
     reference |-> r, lastReference |-> l, W |-> Num(cv[1]), H |-> Num(cv[2])] :
      sh \in PosShapes, x \in PosXValues, y \in PosYValues, sz \in PosSizes,
      cv \in PosCanvases,
      r \in {NoRef, AutoRef} \cup {ObjRef(d) : d \in PosReferences},
      l \in {NullRef} \cup {ObjRef(d) : d \in PosReferences} }

InitPos == arg \in PosArgs /\ res = NoResult /\ RestIdle

ApplyCalculatePosition ==
  /\ arg.fn = "calculatePosition" /\ ~res.done
  /\ res' = [done |-> TRUE, pos |-> calculatePosition(arg)]
  /\ UNCHANGED <<arg, version, cache, now, errorImage, task, out,
                 canvas, lastReference, returned, prev, failedAt>>

NextPos == ApplyCalculatePosition

SpecPos == InitPos /\ [][NextPos]_vars

\* the reference a caller means: the object itself, or lastReference for 'auto'
MeantReference(a) ==
  IF a.reference.k = "auto" THEN a.lastReference ELSE a.reference

\* C5: a rectangle with x (y) spelled "center" in any letter case and no
\* reference is placed at (W - w)/2 (resp. (H - h)/2); a numeric x or y
\* comes back unchanged
C5_CenterOnCanvas ==
  (res.done /\ arg.fn = "calculatePosition" /\ arg.shape = "rectangle") =>
    /\ (arg.reference = NoRef /\ arg.x.k = "string" /\ arg.x.s \in CenterSpellings)
         => res.pos.posX = Half(Sub(arg.W, arg.width))
    /\ (arg.reference = NoRef /\ arg.y.k = "string" /\ arg.y.s \in CenterSpellings)
         => res.pos.posY = Half(Sub(arg.H, arg.height))
    /\ IsNum(arg.x) => res.pos.posX = arg.x
    /\ IsNum(arg.y) => res.pos.posY = arg.y

\* the 50x50 rectangle on the 200x100 surface, spelled "Center"/"CENTER"
C5_Witness ==
  /\ res.done /\ arg.fn = "calculatePosition" /\ arg.shape = "rectangle"
  /\ arg.reference = NoRef
  /\ arg.x = Str(<<"C", "e", "n", "t", "e", "r">>)
  /\ arg.y = Str(<<"C", "E", "N", "T", "E", "R">>)
  /\ arg.width = Num(Px(50)) /\ arg.height = Num(Px(50))
  /\ arg.W = Num(Px(200)) /\ arg.H = Num(Px(100))
  /\ res.pos.posX = Num(Px(75)) /\ res.pos.posY = Num(Px(25))

\* C6: a rectangle centred on a reference A that has x and width is placed
\* at A.x + (A.width - w)/2 (likewise y with height), whether A is passed
\* as the reference or is the lastReference behind reference 'auto'
C6_CenterOnReference ==
  (res.done /\ arg.fn = "calculatePosition" /\ arg.shape = "rectangle"
     /\ MeantReference(arg).k = "object") =>
    LET A == MeantReference(arg).d
    IN /\ (arg.x.k = "string" /\ arg.x.s \in CenterSpellings
             /\ IsNum(A.x) /\ IsNum(A.width))
            => res.pos.posX = Add(A.x, Half(Sub(A.width, arg.width)))
       /\ (arg.y.k = "string" /\ arg.y.s \in CenterSpellings
             /\ IsNum(A.y) /\ IsNum(A.height))
            => res.pos.posY = Add(A.y, Half(Sub(A.height, arg.height)))

\* shape B, 20x20, centred through 'auto' on A = (10,10,100,60): x = 50
C6_Witness ==
  /\ res.done /\ arg.fn = "calculatePosition" /\ arg.shape = "rectangle"
  /\ arg.reference = AutoRef
  /\ arg.lastReference = ObjRef(Descriptor(Num(Px(10)), Num(Px(10)), Num(Px(100)),
                                           Num(Px(60)), Undefined, "rectangle"))
  /\ arg.x = Str(center) /\ arg.y = Str(center)
  /\ arg.width = Num(Px(20)) /\ arg.height = Num(Px(20))
  /\ res.pos.posX = Num(Px(50)) /\ res.pos.posY = Num(Px(30))

(***************************************************************************)
(* Style resolver: parseBorderRadius applied to bounded shorthands         *)
(***************************************************************************)
MaxParts == 5

\* tokens as written, with the number each one stands for (in pixels)
RadiusTokens ==
  { [text |-> <<"4">>, px |-> 4], [text |-> <<"8">>, px |-> 8],
    [text |-> <<"1", "2">>, px |-> 12], [text |-> <<"1", "6", "p", "x">>, px |-> 16] }

RadiusLists == UNION {[1..m -> RadiusTokens] : m \in 0..MaxParts}

RECURSIVE joinTokens(_, _)
joinTokens(tokens, blanks) ==
  IF Len(tokens) = 1 THEN tokens[1].text
  ELSE tokens[1].text \o blanks \o joinTokens(Tail(tokens), blanks)

RadiusArgs ==
  { [fn |-> "parseBorderRadius", form |-> "string", written |-> l,
     input |-> Str(pad \o joinTokens(l, blanks) \o pad)] :
      l \in RadiusLists \ {<< >>}, blanks \in {<<" ">>, <<" ", " ">>},
      pad \in {<< >>, <<" ">>} }
  \cup
  { [fn |-> "parseBorderRadius", form |-> "array", written |-> l,
     input |-> Arr([i \in 1..Len(l) |->
                      IF asText THEN Str(l[i].text) ELSE Num(Px(l[i].px))])] :
      l \in RadiusLists, asText \in BOOLEAN }
  \cup
  { [fn |-> "parseBorderRadius", form |-> "number", written |-> <<t>>,
     input |-> Num(Px(t.px))] : t \in RadiusTokens }

InitRadius == arg \in RadiusArgs /\ res = NoResult /\ RestIdle

ApplyParseBorderRadius ==
  /\ arg.fn = "parseBorderRadius" /\ ~res.done
  /\ res' = [done |-> TRUE, radii |-> parseBorderRadius(arg.input)]
  /\ UNCHANGED <<arg, version, cache, now, errorImage, task, out,
                 canvas, lastReference, returned, prev, failedAt>>

NextRadius == ApplyParseBorderRadius

SpecRadius == InitRadius /\ [][NextRadius]_vars

\* the i-th written value, as a number of the model
Written(i) == Num(Px(arg.written[i].px))

\* C7: n numeric values expand to four corner radii by the CSS rule for
\* n = 1, 2, 3, 4; any other count gives (0,0,0,0) and a warning
C7_ShorthandExpansion ==
  (res.done /\ arg.fn = "parseBorderRadius") =>
    LET n == Len(arg.written)
        v == res.radii.values
    IN /\ n = 1 => v = <<Written(1), Written(1), Written(1), Written(1)>>
       /\ n = 2 => v = <<Written(1), Written(2), Written(1), Written(2)>>
       /\ n = 3 => v = <<Written(1), Written(2), Written(3), Written(2)>>
       /\ n = 4 => v = <<Written(1), Written(2), Written(3), Written(4)>>
       /\ n \notin 1..4 => v = <<Num(0), Num(0), Num(0), Num(0)>>
       /\ res.radii.warned <=> n \notin 1..4

\* "4 8 12" expands to (4, 8, 12, 8)
C7_Witness ==
  /\ res.done /\ arg.fn = "parseBorderRadius"
  /\ arg.input = Str(<<"4", " ", "8", " ", "1", "2">>)
  /\ res.radii.values = <<Num(Px(4)), Num(Px(8)), Num(Px(12)), Num(Px(8))>>
  /\ ~res.radii.warned

(***************************************************************************)
(* Cache managers.  version = "CacheManager.js" is the manager with the    *)
(* images/elements partitions and bare values; version = "part_010" is the *)
(* manager with lazily created partitions and entries that expire.         *)
(***************************************************************************)
imageError404URL == "https://i.ibb.co/CJYLYrt/Error404.jpg"

Placeholder == LoadedImage(imageError404URL)

CACHE_EXPIRATION_MS == 3 * 24 * 60 * 60 * 1000

ERROR_IMAGE_EXPIRATION_MS == 5 * 60 * 1000

\* const cache = { images: {}, elements: {} }  /  const cache = {}
InitialCache(v) ==
  IF v = "CacheManager.js"
  THEN [images |-> EmptyMap, elements |-> EmptyMap]
  ELSE EmptyMap

\* if (!cache[type]) cache[type] = {}
withPartition(c, type) == IF type \in DOMAIN c THEN c ELSE Put(c, type, EmptyMap)

\* cache[type][key] = entry
storeNothing(c, type, key, entry) == c

store(c, type, key, entry) == Put(c, type, Put(c[type], key, entry))

\* part_010: cachedItem && Date.now() < cachedItem.expiration
unexpiredIgnoringClock(c, type, key, t) == key \in DOMAIN c[type]

unexpired(c, type, key, t) ==
  key \in DOMAIN c[type] /\ t < c[type][key].expiration

\* CacheManager.js: if (cache[type][key])
present(c, type, key) == key \in DOMAIN c[type]

cacheHit(v, c, type, key, t) ==
  IF v = "part_010" THEN unexpired(c, type, key, t) ELSE present(c, type, key)

\* what a stored entry holds for its reader
valueOf(v, entry) == IF v = "part_010" THEN entry.value ELSE entry

\* the entry written for a value that stays `life` milliseconds
entryFor(v, value, t, life) ==
  IF v = "part_010" THEN [value |-> value, expiration |-> t + life] ELSE value

(***************************************************************************)
(* Image() of part_008, on top of hasCached/getCachedImage/setCache        *)
(***************************************************************************)
\* `${imgUrl}-${width}-${height}-${color}`
keyImage(o) == o.imgUrl \o "-" \o o.width \o "-" \o o.height \o "-" \o o.color

\* the canvas drawn from `image` and reloaded from its data URL
transformed(image, o) ==
  [kind |-> "image", src |-> image.src,
   edit |-> o.width \o "x" \o o.height \o " " \o o.color \o " @" \o o.opacity]

(***************************************************************************)
(* What is recorded about a call of the cache layer                        *)
(***************************************************************************)
Pending(op, stage, key, url, opts, hadEntry, entryValue, loads) ==
  [op |-> op, stage |-> stage, key |-> key, url |-> url, opts |-> opts,
   at |-> now, hadEntry |-> hadEntry, entryValue |-> entryValue,
   placeholderAt |-> IF key \in DOMAIN failedAt THEN failedAt[key] ELSE 0 - 1,
   loads |-> loads]

\* the call `t` is over: outcome is "returned" or "threw"
Completed(t, loadOk, outcome, value, c) ==
  [op |-> t.op, key |-> t.key, opts |-> t.opts, at |-> t.at, hadEntry |-> t.hadEntry,
   entryValue |-> t.entryValue, placeholderAt |-> t.placeholderAt,
   loads |-> t.loads, loadOk |-> loadOk, outcome |-> outcome, value |-> value,
   stored |-> IF "images" \in DOMAIN c /\ t.key \in DOMAIN c["images"]
              THEN valueOf(version, c["images"][t.key]) ELSE UndefinedImage]

\* an entry under key that has not expired (CacheManager.js entries never do)
EntryExists(c, type, key) ==
  /\ type \in DOMAIN c /\ key \in DOMAIN c[type]
  /\ version = "part_010" => now < c[type][key].expiration

NoOptions == [imgUrl |-> "", width |-> "", height |-> "", color |-> "", opacity |-> ""]

(***************************************************************************)
(* The cache layer as a state machine, one call at a time                  *)
(***************************************************************************)
MaxTicks == 2

ImageUrls == {"u1"}

ImageOptions ==
  { [imgUrl |-> "u1", width |-> "16", height |-> "null", color |-> "null",
     opacity |-> a] : a \in {"1", "0.5"} }

\* the times at which something is observed
Instants ==
  { i * ERROR_IMAGE_EXPIRATION_MS : i \in 0..MaxTicks } \cup
  { i * CACHE_EXPIRATION_MS : i \in 0..MaxTicks }

SessionVars == <<canvas, lastReference, returned, prev>>

FunctionVars == <<arg, res>>

InitCache ==
  /\ version \in {"CacheManager.js", "part_010"}
  /\ cache = InitialCache(version)
  /\ now = 0 /\ errorImage = UndefinedImage /\ task = Idle /\ out = NoCall
  /\ failedAt = EmptyMap
  /\ FunctionsIdle /\ SessionIdle

\* loadImage(imageError404URL).then(image => { errorImage = image; })
ErrorImageLoaded ==
  /\ version = "part_010" /\ errorImage = UndefinedImage
  /\ errorImage' = Placeholder
  /\ UNCHANGED <<version, cache, now, task, out, failedAt, SessionVars, FunctionVars>>

Tick ==
  /\ \E t \in Instants : t > now /\ now' = t
  /\ UNCHANGED <<version, cache, errorImage, task, out, failedAt, SessionVars, FunctionVars>>

\* getCachedImage(url): getFromCacheOrLoad('images', url, () => loadImage(url))
\* up to its return on a hit or its await of the load
CallGetCachedImage ==
  /\ task = Idle
  /\ \E url \in ImageUrls :
       LET c1 == withPartition(cache, "images")
           had == EntryExists(cache, "images", url)
           t == Pending("getCachedImage", "load", url, url, NoOptions, had,
                        IF had THEN valueOf(version, cache["images"][url])
                        ELSE UndefinedImage, 0)
       IN /\ cache' = c1
          /\ IF cacheHit(version, c1, "images", url, now)
             THEN /\ out' = Completed(t, FALSE, "returned",
                                      valueOf(version, c1["images"][url]), c1)
                  /\ task' = Idle
             ELSE /\ task' = [t EXCEPT !.loads = 1]
                  /\ out' = out
  /\ UNCHANGED <<version, now, errorImage, failedAt, SessionVars, FunctionVars>>

\* Image(options) up to its return or its await of the load
CallImage ==
  /\ task = Idle /\ version = "part_010"
  /\ \E o \in ImageOptions :
       LET key == keyImage(o)
           had == EntryExists(cache, "images", key)
           t == Pending("Image", "load", key, o.imgUrl, o, had,
                        IF had THEN cache["images"][key].value ELSE UndefinedImage, 0)
       IN IF "images" \notin DOMAIN cache
          THEN \* hasCached reads cache[type][key] of a partition never created
               /\ out' = Completed(t, FALSE, "threw", UndefinedImage, cache)
               /\ UNCHANGED <<cache, task>>
          ELSE IF unexpired(cache, "images", key, now)
          THEN /\ out' = Completed(t, FALSE, "returned", UndefinedImage, cache)
               /\ UNCHANGED <<cache, task>>
          ELSE /\ task' = [t EXCEPT !.loads = 1]
               /\ UNCHANGED <<cache, out>>
  /\ UNCHANGED <<version, now, errorImage, failedAt, SessionVars, FunctionVars>>

\* the rest of Image() once getCachedImage gave `image`, the cache being c
finishImage(t, loadOk, image, c) ==
  IF image.kind = "undefined"
  THEN \* image.width of undefined
       /\ cache' = c
       /\ out' = Completed(t, loadOk, "threw", UndefinedImage, c)
  ELSE LET c2 == store(c, "images", t.key,
                       entryFor(version, transformed(image, t.opts), now,
                                CACHE_EXPIRATION_MS))
       IN /\ cache' = c2
          /\ out' = Completed(t, loadOk, "returned", UndefinedImage, c2)

\* the awaited loadFunction() resolves
LoadResolves ==
  /\ task # Idle /\ task.stage = "load"
  /\ LET value == LoadedImage(task.url)
         c1 == store(cache, "images", task.key,
                     entryFor(version, value, now, CACHE_EXPIRATION_MS))
     IN IF task.op = "Image"
        THEN finishImage(task, TRUE, value, c1)
        ELSE /\ cache' = c1
             /\ out' = Completed(task, TRUE, "returned", value, c1)
  /\ task' = Idle
  /\ failedAt' = [k \in DOMAIN failedAt \ {task.key} |-> failedAt[k]]
  /\ UNCHANGED <<version, now, errorImage, SessionVars, FunctionVars>>

\* the awaited loadFunction() rejects
LoadRejects ==
  /\ task # Idle /\ task.stage = "load"
  /\ IF version = "part_010"
     THEN LET c1 == store(cache, "images", task.key,
                          entryFor(version, errorImage, now, ERROR_IMAGE_EXPIRATION_MS))
          IN /\ IF task.op = "Image"
                THEN finishImage(task, FALSE, errorImage, c1)
                ELSE /\ cache' = c1
                     /\ out' = Completed(task, FALSE, "returned", errorImage, c1)
             /\ task' = Idle
             /\ failedAt' = Put(failedAt, task.key, now)
     ELSE \* const errorImage = await loadImage(imageError404URL)
          /\ task' = [task EXCEPT !.stage = "loadError"]
          /\ UNCHANGED <<cache, out, failedAt>>
  /\ UNCHANGED <<version, now, errorImage, SessionVars, FunctionVars>>

\* CacheManager.js: the placeholder awaited in the catch block resolves
ErrorLoadResolves ==
  /\ task # Idle /\ task.stage = "loadError"
  /\ LET c1 == store(cache, "images", task.key, Placeholder)
     IN /\ cache' = c1
        /\ out' = Completed(task, FALSE, "returned", Placeholder, c1)
  /\ task' = Idle
  /\ failedAt' = Put(failedAt, task.key, now)
  /\ UNCHANGED <<version, now, errorImage, SessionVars, FunctionVars>>

\* CacheManager.js: the placeholder awaited in the catch block rejects
ErrorLoadRejects ==
  /\ task # Idle /\ task.stage = "loadError"
  /\ out' = Completed(task, FALSE, "threw", UndefinedImage, cache)
  /\ task' = Idle
  /\ UNCHANGED <<version, cache, now, errorImage, failedAt, SessionVars, FunctionVars>>

NextCache ==
  \/ ErrorImageLoaded
  \/ Tick
  \/ CallGetCachedImage
  \/ CallImage
  \/ LoadResolves
  \/ LoadRejects
  \/ ErrorLoadResolves
  \/ ErrorLoadRejects

SpecCache == InitCache /\ [][NextCache]_vars

\* C1: getFromCacheOrLoad returns the stored value without invoking load when
\* an unexpired entry exists under the key; otherwise it invokes load exactly
\* once and, when load succeeds, stores its result under the key and returns it.
C1_HitOrSingleLoad ==
  /\ (task # Idle) => (~task.hadEntry /\ task.loads = 1)
  /\ (out.op = "getCachedImage") =>
       /\ out.hadEntry =>
            /\ out.loads = 0 /\ out.outcome = "returned"
            /\ out.value = out.entryValue
       /\ ~out.hadEntry =>
            /\ out.loads = 1
            /\ out.loadOk =>
                 /\ out.outcome = "returned"
                 /\ out.value = LoadedImage(out.key)
                 /\ out.stored = out.value

\* a call at a later instant answered from an entry that has not expired
C1_Witness ==
  /\ out.op = "getCachedImage" /\ out.hadEntry /\ out.loads = 0
  /\ out.at > 0 /\ out.value = LoadedImage(out.key)

\* C9: getCachedImage never fails because the URL cannot be loaded: every call
\* that is over returned a usable bitmap, also when the failure came before the
\* placeholder image had finished loading.
C9_AlwaysABitmap ==
  (out.op = "getCachedImage") =>
    (out.outcome = "returned" /\ out.value.kind = "image")

\* C10: once a fetch for a key failed and a placeholder was stored, a call
\* before the placeholder's five minutes are over fetches nothing, and a call
\* after them fetches again, for getCachedImage and for Image() alike.
C10_PlaceholderAgesOut ==
  (out.op \in {"getCachedImage", "Image"} /\ out.placeholderAt >= 0) =>
    /\ (out.at < out.placeholderAt + ERROR_IMAGE_EXPIRATION_MS) =>
         /\ out.loads = 0
         /\ (out.op = "getCachedImage") => (out.value = out.entryValue)
    /\ (out.at >= out.placeholderAt + ERROR_IMAGE_EXPIRATION_MS) => (out.loads = 1)

(***************************************************************************)
(* pxToNumber and pixelParser of CanvasHelper.js                           *)
(***************************************************************************)
\* String.prototype.split(' ')
RECURSIVE splitEach(_, _, _)
splitEach(s, piece, pieces) ==
  IF s = << >> THEN Append(pieces, piece)
  ELSE IF Head(s) = " " THEN splitEach(Tail(s), << >>, Append(pieces, piece))
  ELSE splitEach(Tail(s), Append(piece, Head(s)), pieces)

endsWithPx(s) == Len(s) >= 2 /\ s[Len(s) - 1] = "p" /\ s[Len(s)] = "x"

pxToNumber(value) ==
  IF value.k # "string" \/ ~Truthy(value) THEN value
  ELSE LET valuesSplited == splitEach(value.s, << >>, << >>)
           numeric(piece) == endsWithPx(piece) \/ parseFloatString(piece).k # "NaN"
       IN IF \E i \in 1..Len(valuesSplited) : ~numeric(valuesSplited[i])
          THEN value
          ELSE IF Len(valuesSplited) = 1
          THEN parseFloatString(valuesSplited[1])
          ELSE Arr([i \in 1..Len(valuesSplited) |-> parseFloatString(valuesSplited[i])])

\* the option fields that hold JavaScript values here; the others hold plain
\* strings ("" when left out) that pxToNumber hands back as they are
ValueFields == {"x", "y", "width", "height", "radius", "size", "startX", "startY",
                "endX", "endY", "lineWidth", "borderWidth", "borderRadius"}

\* if (value) transformedOptions[key] = pxToNumber(value)
pixelParser(options) ==
  [f \in DOMAIN options |->
     IF f \in ValueFields
     THEN (IF Truthy(options[f]) THEN pxToNumber(options[f]) ELSE Undefined)
     ELSE options[f]]

\* a destructuring default
orDefault(v, default) == IF v.k = "undefined" THEN default ELSE v

textOr(v, default) == IF v = "" THEN default ELSE v

(***************************************************************************)
(* Options of the draw calls                                               *)
(***************************************************************************)
EmptyOptions ==
  [x |-> Undefined, y |-> Undefined, width |-> Undefined, height |-> Undefined,
   radius |-> Undefined, size |-> Undefined,
   startX |-> Undefined, startY |-> Undefined, endX |-> Undefined, endY |-> Undefined,
   lineWidth |-> Undefined, lineColor |-> "", lineCap |-> "",
   reference |-> NoRef,
   borderRadius |-> Undefined, borderWidth |-> Undefined, borderColor |-> "",
   borderGradient |-> "", borderStyle |-> "",
   backgroundColor |-> "", backgroundImage |-> "", backgroundGradient |-> "",
   text |-> "", font |-> "", color |-> "", align |-> "", baseline |-> ""]

\* the argument object the renderers hand to calculatePosition
positionArgs(shape, o, x, y, last) ==
  [shape |-> shape, x |-> x, y |-> y, width |-> o.width, height |-> o.height,
   radius |-> o.radius, size |-> o.size, borderWidth |-> o.borderWidth,
   lineWidth |-> o.lineWidth, reference |-> o.reference, lastReference |-> last,
   W |-> canvas.W, H |-> canvas.H]

(***************************************************************************)
(* getCachedImage of CacheManager.js as one awaited call; fetch tells how  *)
(* the loads go: "loaded", "placeholder" (the URL fails, the placeholder   *)
(* loads) or "failed" (both fail)                                          *)
(***************************************************************************)
FetchOutcomes == {"loaded", "placeholder", "failed"}

getCachedImage(c, url, fetch) ==
  IF present(c, "images", url)
  THEN [cache |-> c, threw |-> FALSE, image |-> c["images"][url]]
  ELSE CASE fetch = "loaded" ->
              [cache |-> store(c, "images", url, LoadedImage(url)),
               threw |-> FALSE, image |-> LoadedImage(url)]
         [] fetch = "placeholder" ->
              [cache |-> store(c, "images", url, Placeholder),
               threw |-> FALSE, image |-> Placeholder]
         [] OTHER ->
              [cache |-> c, threw |-> TRUE, image |-> UndefinedImage]

\* await loadImage(url) inside try/catch: the image, or nothing drawn
loadImage(url, fetch) == IF fetch = "loaded" THEN LoadedImage(url) ELSE UndefinedImage

(***************************************************************************)
(* What a renderer call comes to                                           *)
(***************************************************************************)
NoBitmap == [paint |-> [shape |-> "none"], picture |-> UndefinedImage]

Bitmap(paint, picture) == [paint |-> paint, picture |-> picture]

\* the call threw out of an await
Threw(c, key, paint, geometry) ==
  [cache |-> c, threw |-> TRUE, hit |-> FALSE, drew |-> FALSE, key |-> key,
   bitmap |-> NoBitmap, paint |-> paint, geometry |-> geometry,
   composited |-> FALSE, descriptor |-> NullRef]

\* the call returned descriptor d
Drawn(c, hit, key, bitmap, paint, geometry, composited, d) ==
  [cache |-> c, threw |-> FALSE, hit |-> hit, drew |-> ~hit, key |-> key,
   bitmap |-> bitmap, paint |-> paint, geometry |-> geometry,
   composited |-> composited, descriptor |-> ObjRef(d)]

\* fillStyle / strokeStyle chosen by RectDrawer and CircleDrawer
fillOf(o) ==
  IF (o.backgroundColor # "" /\ o.backgroundColor # "transparent")
     \/ o.backgroundGradient # ""
  THEN (IF o.backgroundColor # "" THEN o.backgroundColor ELSE o.backgroundGradient)
  ELSE ""

strokeOf(o) ==
  IF (o.borderColor # "" \/ o.borderGradient # "") /\ Truthy(o.borderWidth)
  THEN (IF o.borderColor # "" THEN o.borderColor ELSE o.borderGradient)
  ELSE ""

\* ctx.drawImage(bitmap, x, y): where on the main canvas the bitmap went
At(x, y) == [x |-> x, y |-> y]

Resolved(start, end) == [start |-> start, end |-> end]

\* what an image load gives when no image is asked for
NoFetch(c) == [cache |-> c, threw |-> FALSE, image |-> UndefinedImage]

(***************************************************************************)
(* RectDrawer.drawRect; o is the parsed options with their defaults, g the *)
(* result of calculatePosition                                             *)
(***************************************************************************)
rectOptions(options) ==
  LET p == pixelParser(options)
  IN [p EXCEPT !.borderRadius = orDefault(p.borderRadius, Num(0))]

rectKey(o, g) ==
  [width |-> g.divWidth, height |-> g.divHeight, borderRadius |-> o.borderRadius,
   backgroundColor |-> o.backgroundColor, backgroundImage |-> o.backgroundImage,
   backgroundGradient |-> o.backgroundGradient, borderColor |-> o.borderColor,
   borderWidth |-> o.borderWidth, borderStyle |-> o.borderStyle,
   shape |-> "rectangle"]

\* what the offscreen canvas is painted with
rectPaint(o, g) ==
  [shape |-> "rectangle", width |-> g.divWidth, height |-> g.divHeight,
   borderRadius |-> o.borderRadius, picture |-> o.backgroundImage,
   fill |-> fillOf(o), stroke |-> strokeOf(o),
   lineWidth |-> IF strokeOf(o) # "" THEN o.borderWidth ELSE Undefined,
   dash |-> IF strokeOf(o) # "" THEN o.borderStyle ELSE ""]

drawRect(o, g, c, fetch) ==
  LET cacheKey == rectKey(o, g)
      d == Descriptor(g.posX, g.posY, g.divWidth, g.divHeight, Undefined, "rectangle")
  IN IF present(c, "elements", cacheKey)
     THEN Drawn(c, TRUE, cacheKey, c["elements"][cacheKey], rectPaint(o, g),
                Resolved(g, NoPosition), At(g.posX, g.posY), d)
     ELSE LET got == IF o.backgroundImage # ""
                     THEN getCachedImage(c, o.backgroundImage, fetch)
                     ELSE NoFetch(c)
              offScreenCanvas == Bitmap(rectPaint(o, g), got.image)
          IN IF got.threw
             THEN Threw(c, cacheKey, rectPaint(o, g), Resolved(g, NoPosition))
             ELSE Drawn(store(got.cache, "elements", cacheKey, offScreenCanvas),
                        FALSE, cacheKey, offScreenCanvas, rectPaint(o, g),
                        Resolved(g, NoPosition), At(g.posX, g.posY), d)

(***************************************************************************)
(* CircleDrawer.drawCircle                                                 *)
(***************************************************************************)
circleKey(o, g) ==
  [x |-> g.posX, y |-> g.posY, radius |-> g.circleRadius,
   backgroundColor |-> o.backgroundColor, backgroundImage |-> o.backgroundImage,
   backgroundGradient |-> o.backgroundGradient, borderColor |-> o.borderColor,
   borderGradient |-> o.borderGradient, borderWidth |-> o.borderWidth,
   shape |-> "circle"]

circlePaint(o, g) ==
  [shape |-> "circle", radius |-> g.circleRadius, picture |-> o.backgroundImage,
   fill |-> fillOf(o), stroke |-> strokeOf(o),
   lineWidth |-> IF strokeOf(o) # "" THEN o.borderWidth ELSE Undefined]

drawCircle(o, g, c, fetch) ==
  LET r == g.circleRadius
      cacheKey == circleKey(o, g)
      corner == At(Sub(g.posX, r), Sub(g.posY, r))
  IN IF present(c, "elements", cacheKey)
     THEN Drawn(c, TRUE, cacheKey, c["elements"][cacheKey], circlePaint(o, g),
                Resolved(g, NoPosition), corner,
                Descriptor(g.posX, g.posY, Twice(r), Twice(r), r, "circle"))
     ELSE LET got == IF o.backgroundImage # ""
                     THEN getCachedImage(c, o.backgroundImage, fetch)
                     ELSE NoFetch(c)
              offScreenCanvas == Bitmap(circlePaint(o, g), got.image)
          IN IF got.threw
             THEN Threw(c, cacheKey, circlePaint(o, g), Resolved(g, NoPosition))
             ELSE Drawn(store(got.cache, "elements", cacheKey, offScreenCanvas),
                        FALSE, cacheKey, offScreenCanvas, circlePaint(o, g),
                        Resolved(g, NoPosition), corner,
                        Descriptor(corner.x, corner.y, Twice(r), Twice(r),
                                   Undefined, "circle"))

(***************************************************************************)
(* LineDrawer.drawLine; g holds the start and the end position             *)
(***************************************************************************)
lineOptions(options) ==
  LET p == pixelParser(options)
  IN [p EXCEPT !.lineWidth = orDefault(p.lineWidth, Num(Px(1))),
               !.lineColor = textOr(options.lineColor, "black"),
               !.lineCap = textOr(options.lineCap, "butt")]

\* Math.abs
Abs(a) == IF IsNum(a) /\ a.n < 0 THEN Num(0 - a.n) ELSE a

lineKey(o, g) ==
  [startX |-> g.start.posX, startY |-> g.start.posY,
   endX |-> g.end.posX, endY |-> g.end.posY,
   lineWidth |-> o.lineWidth, lineColor |-> o.lineColor, lineCap |-> o.lineCap]

linePaint(o, g) ==
  [shape |-> "line", deltaX |-> Abs(Sub(g.end.posX, g.start.posX)),
   deltaY |-> Abs(Sub(g.end.posY, g.start.posY)),
   lineWidth |-> o.lineWidth, lineColor |-> o.lineColor, lineCap |-> o.lineCap]

drawLine(o, g, c) ==
  LET cacheKey == lineKey(o, g)
      where == At(Sub(g.start.posX, o.lineWidth), Sub(g.start.posY, o.lineWidth))
      d == Descriptor(g.start.posX, g.start.posY, Sub(g.end.posX, g.start.posX),
                      Sub(g.end.posY, g.start.posY), Undefined, "")
  IN IF present(c, "elements", cacheKey)
     THEN Drawn(c, TRUE, cacheKey, c["elements"][cacheKey], linePaint(o, g), g, where, d)
     ELSE Drawn(store(c, "elements", cacheKey, Bitmap(linePaint(o, g), UndefinedImage)),
                FALSE, cacheKey, Bitmap(linePaint(o, g), UndefinedImage),
                linePaint(o, g), g, where, d)

(***************************************************************************)
(* TriangleDrawer.drawTriangle (part_004)                                  *)
(***************************************************************************)
triangleOptions(options) ==
  LET p == pixelParser(options)
  IN [p EXCEPT !.backgroundColor = textOr(options.backgroundColor, "transparent"),
               !.borderWidth = orDefault(p.borderWidth, Num(0))]

triangleKey(o) ==
  [size |-> o.size, backgroundColor |-> o.backgroundColor,
   backgroundImage |-> o.backgroundImage, backgroundGradient |-> o.backgroundGradient,
   borderColor |-> o.borderColor, borderGradient |-> o.borderGradient,
   borderWidth |-> o.borderWidth, shape |-> "triangle"]

trianglePaint(o) ==
  [shape |-> "triangle", size |-> o.size, borderWidth |-> o.borderWidth,
   fill |-> IF o.backgroundGradient # "" THEN o.backgroundGradient
            ELSE o.backgroundColor,
   picture |-> o.backgroundImage,
   stroke |-> IF o.borderGradient # "" /\ IsNum(o.borderWidth) /\ o.borderWidth.n > 0
              THEN o.borderGradient
              ELSE textOr(o.borderColor, "transparent")]

drawTriangle(o, g, c, fetch) ==
  LET cacheKey == triangleKey(o)
      side == Add(o.size, Twice(o.borderWidth))
      corner == At(Sub(g.posX, o.borderWidth), Sub(g.posY, o.borderWidth))
      d == Descriptor(corner.x, corner.y, side, side, Undefined, "triangle")
  IN IF present(c, "elements", cacheKey)
     THEN Drawn(c, TRUE, cacheKey, c["elements"][cacheKey], trianglePaint(o),
                Resolved(g, NoPosition), At(g.posX, g.posY), d)
     ELSE LET image == IF o.backgroundImage # ""
                       THEN loadImage(o.backgroundImage, fetch)
                       ELSE UndefinedImage
              offScreenCanvas == Bitmap(trianglePaint(o), image)
          IN Drawn(store(c, "elements", cacheKey, offScreenCanvas),
                   FALSE, cacheKey, offScreenCanvas, trianglePaint(o),
                   Resolved(g, NoPosition), corner, d)

(***************************************************************************)
(* TextDrawer.drawText (second class of LineDrawer.js), x and y numeric,    *)
(* align and baseline left at their defaults                               *)
(***************************************************************************)
textOptions(options) ==
  LET p == pixelParser(options)
  IN [p EXCEPT !.font = textOr(options.font, "30px sans-serif"),
               !.color = textOr(options.color, "#000000"),
               !.align = textOr(options.align, "start"),
               !.baseline = textOr(options.baseline, "alphabetic")]

textKey(o) ==
  [font |-> o.font, color |-> o.color, align |-> o.align, baseline |-> o.baseline,
   shape |-> "text"]

textPaint(o) ==
  [shape |-> "text", text |-> o.text, font |-> o.font, color |-> o.color,
   align |-> o.align, baseline |-> o.baseline]

\* let posX = x; let posY = y
textPosition(o) == [NoPosition EXCEPT !.posX = o.x, !.posY = o.y]

\* ctx.measureText(text) of the raster backend for a short word in the
\* default font: the advance width, and how far the ink reaches above and
\* below the baseline
measureText(text) ==
  [width |-> Num(Px(30)), actualBoundingBoxAscent |-> Num(Px(22)),
   actualBoundingBoxDescent |-> Num(Px(6))]

\* ctx.fillText(text, posX, posY) with align 'start' and baseline
\* 'alphabetic': the top left corner of the ink on the main canvas
fillText(textMetrics, posX, posY) ==
  At(posX, Sub(posY, textMetrics.actualBoundingBoxAscent))

drawText(o, c) ==
  LET cacheKey == textKey(o)
      textMetrics == measureText(o.text)
      d == Descriptor(o.x, o.y, Undefined, Undefined, Undefined, "text")
  IN IF present(c, "elements", cacheKey)
     THEN Drawn(c, TRUE, cacheKey, c["elements"][cacheKey], textPaint(o),
                Resolved(textPosition(o), NoPosition), At(o.x, o.y), d)
     ELSE Drawn(store(c, "elements", cacheKey, Bitmap(textPaint(o), UndefinedImage)),
                FALSE, cacheKey, Bitmap(textPaint(o), UndefinedImage), textPaint(o),
                Resolved(textPosition(o), NoPosition),
                fillText(textMetrics, o.x, o.y), d)

(***************************************************************************)
(* isValidMimeType and the encoders of the two CanvasDrawer classes        *)
(***************************************************************************)
validMimeTypes == {"image/jpeg", "image/png", "image/webp"}

isValidMimeType(mimeType) == mimeType \in validMimeTypes

\* part_001 checks the type first; part_000 hands it to canvas.toBuffer as is.
\* backend is what toBuffer does with a type it does not know.
encode(drawer, mimeType, backend) ==
  IF drawer = "part_001" /\ ~isValidMimeType(mimeType)
  THEN [outcome |-> "threw", asked |-> FALSE]
  ELSE [outcome |-> IF isValidMimeType(mimeType) \/ backend = "encodes"
                    THEN "returned" ELSE "threw",
        asked |-> TRUE]

\* this.lastReference = await this.<shape>Drawer.draw<Shape>(...)
assignLastReferenceNever(last, descriptor) == last

assignLastReference(last, descriptor) == descriptor

(***************************************************************************)
(* A CanvasDrawer session over the CacheManager.js cache.  The part_001    *)
(* class offers the five draw calls; of the part_000 class the encoders    *)
(* are modelled.  Calls are awaited one after the other.                   *)
(***************************************************************************)
MaxCalls == 3

Centre == Str(center)

N(p) == Num(Px(p))

RectInputs ==
  { [EmptyOptions EXCEPT !.x = Centre, !.y = Centre, !.width = N(100),
       !.height = N(60), !.reference = AutoRef, !.borderWidth = N(2),
       !.borderGradient = g] : g \in {"red blue", "lime navy"} }
  \cup
  { [EmptyOptions EXCEPT !.x = N(10), !.y = N(10), !.width = N(100),
       !.height = N(60), !.backgroundImage = "u1"] }

CircleInputs ==
  { [EmptyOptions EXCEPT !.x = Centre, !.y = Centre, !.radius = N(40),
       !.reference = AutoRef, !.backgroundColor = "red"],
    [EmptyOptions EXCEPT !.x = N(30), !.y = N(30), !.radius = N(40),
       !.backgroundImage = "u1"] }

LineInputs ==
  { [EmptyOptions EXCEPT !.startX = Centre, !.startY = N(20), !.endX = N(180),
       !.endY = N(20), !.lineWidth = N(2), !.reference = AutoRef],
    [EmptyOptions EXCEPT !.startX = N(10), !.startY = N(10), !.endX = N(90),
       !.endY = N(50)],
    [EmptyOptions EXCEPT !.startX = N(90), !.startY = N(50), !.endX = N(10),
       !.endY = N(10)] }

TriangleInputs ==
  { [EmptyOptions EXCEPT !.x = Centre, !.y = Centre, !.size = N(40),
       !.borderWidth = N(2), !.borderGradient = "red blue", !.reference = AutoRef],
    [EmptyOptions EXCEPT !.x = N(8), !.y = N(8), !.size = N(40),
       !.backgroundImage = "u1"],
    [EmptyOptions EXCEPT !.x = Centre, !.y = Centre, !.size = N(40),
       !.borderWidth = N(2), !.borderColor = "red"] }

TextInputs ==
  { [EmptyOptions EXCEPT !.text = t, !.x = N(12), !.y = N(24)] : t \in {"hi", "yo"} }

MimeTypes == validMimeTypes \cup {"image/gif"}

Backends == {"encodes", "rejects"}

ClearOptions ==
  { [images |-> TRUE, elements |-> TRUE], [images |-> TRUE, elements |-> FALSE],
    [images |-> FALSE, elements |-> TRUE] }

CacheVars == <<version, now, errorImage, task, failedAt>>

Init ==
  /\ version = "CacheManager.js" /\ cache = InitialCache(version)
  /\ now = 0 /\ errorImage = UndefinedImage /\ task = Idle /\ failedAt = EmptyMap
  /\ out = NoCall /\ prev = NoCall
  /\ canvas \in { [W |-> N(200), H |-> N(120), drawer |-> dr, calls |-> 0] :
                    dr \in {"part_000", "part_001"} }
  /\ lastReference = NullRef /\ returned = NullRef
  /\ FunctionsIdle

\* the draw call before the one observed in `out`
lastDraw == IF out.op = "draw" THEN out ELSE prev

\* the session may issue another call / another call of the part_001 class
CanCall == canvas.calls < MaxCalls

CanDraw == CanCall /\ canvas.drawer = "part_001"

\* a part_001 draw call whose renderer came to `result`
Draw(shape, options, result) ==
  /\ cache' = result.cache
  /\ lastReference' = IF result.threw THEN lastReference
                      ELSE assignLastReference(lastReference, result.descriptor)
  /\ returned' = IF result.threw THEN returned ELSE result.descriptor
  /\ out' = [op |-> "draw", shape |-> shape, opts |-> options,
             supplied |-> lastReference, before |-> returned,
             key |-> result.key, hit |-> result.hit, drew |-> result.drew,
             threw |-> result.threw, bitmap |-> result.bitmap,
             paint |-> result.paint, geometry |-> result.geometry,
             composited |-> result.composited, descriptor |-> result.descriptor]
  /\ prev' = lastDraw
  /\ canvas' = [canvas EXCEPT !.calls = @ + 1]
  /\ UNCHANGED <<CacheVars, FunctionVars>>

\* calculatePosition as the renderer of `shape` calls it for the point (x, y)
positionOf(shape, o, x, y) ==
  calculatePosition(positionArgs(shape, o, x, y, lastReference))

DrawRect ==
  /\ CanDraw
  /\ \E options \in RectInputs :
       \E o \in {rectOptions(options)} :
         \E g \in {positionOf("rectangle", o, o.x, o.y)} :
           \E fetch \in FetchOutcomes :
             \E result \in {drawRect(o, g, cache, fetch)} :
               Draw("rectangle", options, result)

DrawCircle ==
  /\ CanDraw
  /\ \E options \in CircleInputs :
       \E o \in {pixelParser(options)} :
         \E g \in {positionOf("circle", o, o.x, o.y)} :
           \E fetch \in FetchOutcomes :
             \E result \in {drawCircle(o, g, cache, fetch)} :
               Draw("circle", options, result)

DrawLine ==
  /\ CanDraw
  /\ \E options \in LineInputs :
       \E o \in {lineOptions(options)} :
         \E g \in {Resolved(positionOf("line", o, o.startX, o.startY),
                            positionOf("line", o, o.endX, o.endY))} :
           \E result \in {drawLine(o, g, cache)} :
             Draw("line", options, result)

DrawTriangle ==
  /\ CanDraw
  /\ \E options \in TriangleInputs :
       \E o \in {triangleOptions(options)} :
         \E g \in {positionOf("triangle", o, o.x, o.y)} :
           \E fetch \in FetchOutcomes :
             \E result \in {drawTriangle(o, g, cache, fetch)} :
               Draw("triangle", options, result)

DrawText ==
  /\ CanDraw
  /\ \E options \in TextInputs :
       \E o \in {textOptions(options)} :
         \E result \in {drawText(o, cache)} :
           Draw("text", options, result)

\* getBuffer / generateAttachment of either class
Encode(op, mimeType, backend) ==
  /\ out' = [op |-> op, mimeType |-> mimeType,
             outcome |-> encode(canvas.drawer, mimeType, backend).outcome,
             asked |-> encode(canvas.drawer, mimeType, backend).asked]
  /\ prev' = lastDraw
  /\ canvas' = [canvas EXCEPT !.calls = @ + 1]
  /\ UNCHANGED <<cache, lastReference, returned, CacheVars, FunctionVars>>

GetBuffer ==
  /\ CanCall
  /\ \E mimeType \in MimeTypes, backend \in Backends :
       Encode("getBuffer", mimeType, backend)

GenerateAttachment ==
  /\ CanCall
  /\ \E mimeType \in MimeTypes, backend \in Backends :
       Encode("generateAttachment", mimeType, backend)

\* a clearCache that takes no notice of its options
clearCacheEverything(c, options) ==
  [c EXCEPT !["images"] = EmptyMap, !["elements"] = EmptyMap]

\* clearCache(options) of CacheManager.js
clearCache(c, options) ==
  [c EXCEPT !["images"] = IF options.images THEN EmptyMap ELSE @,
            !["elements"] = IF options.elements THEN EmptyMap ELSE @]

\* CanvasDrawer.clearCache(options), or the seven-day timer (which clears both)
ClearCache ==
  /\ CanDraw
  /\ \E options \in ClearOptions :
       /\ cache' = clearCache(cache, options)
       /\ out' = [op |-> "clearCache", options |-> options]
  /\ prev' = NoCall
  /\ canvas' = [canvas EXCEPT !.calls = @ + 1]
  /\ UNCHANGED <<lastReference, returned, CacheVars, FunctionVars>>

Next ==
  \/ DrawRect
  \/ DrawCircle
  \/ DrawLine
  \/ DrawTriangle
  \/ DrawText
  \/ GetBuffer
  \/ GenerateAttachment
  \/ ClearCache

Spec == Init /\ [][Next]_vars

CachedShapes == {"rectangle", "circle", "triangle", "line"}

\* the same options issued twice in a row to one renderer, nothing cleared between
SameOptionsTwice ==
  /\ out.op = "draw" /\ prev.op = "draw"
  /\ out.shape \in CachedShapes
  /\ out.shape = prev.shape /\ out.opts = prev.opts

\* the second call found its key, drew nothing offscreen and composited the
\* bitmap the first call left in the elements partition
ServedFromFirst ==
  /\ out.hit /\ ~out.drew /\ ~out.threw
  /\ out.key = prev.key
  /\ out.bitmap = prev.bitmap

C3_KeyCoversVisualInputs ==
  /\ (out.op = "draw" /\ prev.op = "draw" /\ out.shape = prev.shape
        /\ out.paint # prev.paint) => (out.key # prev.key)
  /\ (out.op = "draw" /\ out.hit) => (out.bitmap.paint = out.paint)

\* what the call observed in `out` resolves to when it names no reference
resolvedWithoutReference ==
  LET o == [out.opts EXCEPT !.reference = NoRef]
      at(x, y) == calculatePosition(positionArgs(out.shape, o, x, y, out.supplied))
  IN CASE out.shape = "line" ->
            Resolved(at(lineOptions(o).startX, lineOptions(o).startY),
                     at(lineOptions(o).endX, lineOptions(o).endY))
       [] out.shape = "triangle" ->
            Resolved(calculatePosition(positionArgs("triangle", triangleOptions(o),
                       pixelParser(o).x, pixelParser(o).y, out.supplied)), NoPosition)
       [] out.shape = "text" -> Resolved(textPosition(pixelParser(o)), NoPosition)
       [] OTHER -> Resolved(at(pixelParser(o).x, pixelParser(o).y), NoPosition)

\* C4: the lastReference supplied to a draw call is the descriptor returned by
\* the latest earlier draw call of any shape, null before the first; and with
\* a null lastReference, "auto" resolves as if no reference had been given.
C4_AutoIsLatestDescriptor ==
  /\ lastReference = returned
  /\ (out.op = "draw") =>
       /\ out.supplied = out.before
       /\ (prev.op = "draw" /\ ~prev.threw) => (out.supplied = prev.descriptor)
       /\ (out.supplied.k = "null" /\ out.opts.reference = AutoRef) =>
            (out.geometry = resolvedWithoutReference)

\* a text call followed by a call centred through "auto" on what it returned
C4_Witness ==
  /\ out.op = "draw" /\ prev.op = "draw" /\ prev.shape = "text"
  /\ out.shape = "rectangle" /\ out.opts.reference = AutoRef
  /\ out.supplied = prev.descriptor /\ out.supplied.k = "object"

\* C8: getBuffer and generateAttachment given a MIME type other than png, jpeg
\* or webp throw before the raster backend is asked to encode.
C8_UnsupportedTypeRejected ==
  (out.op \in {"getBuffer", "generateAttachment"} /\ ~isValidMimeType(out.mimeType))
    => (out.outcome = "threw" /\ ~out.asked)

(***************************************************************************)
(* Background gradients: the block each renderer runs when the fill is a   *)
(* gradient.  Colours are strings (sequences of characters).               *)
(***************************************************************************)
\* a list of colours as JavaScript hands it over: an array, a string of
\* colours separated by single spaces, or nothing
ColorArray(colors) == [k |-> "array", a |-> colors, s |-> << >>]

ColorString(s) == [k |-> "string", a |-> << >>, s |-> s]

NoColors == [k |-> "undefined", a |-> << >>, s |-> << >>]

\* index / (length - 1) and the offsets stops state, as exact fractions;
\* den = 0 is 0/0, which is NaN
Frac(num, den) == [num |-> num, den |-> den]

SameOffset(a, b) == a.den # 0 /\ b.den # 0 /\ a.num * b.den = b.num * a.den

\* { color, offset } of a stops array; stated tells whether offset is given
Stop(color, stated, offset) == [color |-> color, stated |-> stated, offset |-> offset]

NoStops == [k |-> "undefined", a |-> << >>]

StopArray(stops) == [k |-> "array", a |-> stops]

\* the three forms of a gradient option
GradientList(list) ==
  [k |-> list.k, a |-> list.a, s |-> list.s, hasAngle |-> FALSE, angle |-> 0,
   stops |-> NoStops, colors |-> NoColors]

GradientObject(hasAngle, angle, stops, colors) ==
  [k |-> "object", a |-> << >>, s |-> << >>, hasAngle |-> hasAngle, angle |-> angle,
   stops |-> stops, colors |-> colors]

NoGradientColors == [defined |-> FALSE, colors |-> << >>]

GradientColors(colors) == [defined |-> TRUE, colors |-> colors]

\* let gradientColors; ... the chain of ifs that assigns it (or does not)
gradientColors(gradient) ==
  CASE gradient.k = "array" -> GradientColors(gradient.a)
    [] gradient.k = "string" -> GradientColors(splitEach(gradient.s, << >>, << >>))
    [] OTHER ->
         IF gradient.stops.k = "array"
         THEN GradientColors([i \in 1..Len(gradient.stops.a) |-> gradient.stops.a[i].color])
         ELSE IF gradient.colors.k = "array"
         THEN GradientColors(gradient.colors.a)
         ELSE IF gradient.colors.k = "string" /\ gradient.colors.s # << >>
         THEN GradientColors(splitEach(gradient.colors.s, << >>, << >>))
         ELSE NoGradientColors

\* const { angle = 0 } = gradient; 0 for the array and string forms
gradientAngle(gradient) ==
  IF gradient.k = "object" /\ gradient.hasAngle THEN gradient.angle ELSE 0

\* gradientColors.forEach((color, index) => addColorStop(index / (length - 1), color))
addColorStops(colors) ==
  [i \in 1..Len(colors) |->
     [offset |-> Frac(i - 1, Len(colors) - 1), color |-> colors[i]]]

\* Math.cos and Math.sin of an angle in degrees, for the multiples of 90; the
\* residue of the floating-point value of pi (below 1e-15 of the extent) is
\* left out
cosDeg(degrees) ==
  CASE (degrees + 360) % 360 = 0 -> 1
    [] (degrees + 360) % 360 = 180 -> -1
    [] OTHER -> 0

sinDeg(degrees) ==
  CASE (degrees + 360) % 360 = 90 -> 1
    [] (degrees + 360) % 360 = 270 -> -1
    [] OTHER -> 0

Times(a, factor) == Arith(a, a, a.n * factor)

\* x0 = cx + rx * cos(angle - 90), y0 = cy + ry * sin(angle - 90), and the
\* same with angle + 90 for x1 and y1: createLinearGradient(x0, y0, x1, y1)
createLinearGradient(cx, cy, rx, ry, angle) ==
  [x0 |-> Add(cx, Times(rx, cosDeg(angle - 90))),
   y0 |-> Add(cy, Times(ry, sinDeg(angle - 90))),
   x1 |-> Add(cx, Times(rx, cosDeg(angle + 90))),
   y1 |-> Add(cy, Times(ry, sinDeg(angle + 90)))]

NoLine == [x0 |-> Undefined, y0 |-> Undefined, x1 |-> Undefined, y1 |-> Undefined]

\* the renderers: the class-based ones paint an offscreen canvas that is then
\* cached and composited, the function-based ones paint the target context
Offscreen == {"RectDrawer.js", "CircleDrawer.js", "part_004"}

Direct == {"part_009", "part_006", "part_007"}

Renderers == Offscreen \cup Direct

\* the triangle's offscreen canvas is size + 2 * borderWidth wide and high
triangleCanvas(g) == Add(g.size, Twice(g.borderWidth))

\* the gradient line each renderer asks for, in the context it paints
gradientLine(renderer, g, angle) ==
  CASE renderer = "RectDrawer.js" ->
         createLinearGradient(Half(g.width), Half(g.height),
                              Half(g.width), Half(g.height), angle)
    [] renderer \in {"part_009", "part_007"} ->
         createLinearGradient(g.posX, g.posY, Half(g.width), Half(g.height), angle)
    [] renderer \in {"CircleDrawer.js", "part_006"} ->
         createLinearGradient(g.radius, g.radius, g.radius, g.radius, angle)
    [] OTHER ->
         createLinearGradient(Half(triangleCanvas(g)), Half(triangleCanvas(g)),
                              Half(triangleCanvas(g)), Half(triangleCanvas(g)), angle)

Box(left, top, right, bottom) ==
  [left |-> left, top |-> top, right |-> right, bottom |-> bottom]

\* the bounding box of the path the renderer fills with the gradient, in the
\* same context
fillPath(renderer, g) ==
  CASE renderer = "RectDrawer.js" -> Box(Num(0), Num(0), g.width, g.height)
    [] renderer \in {"part_009", "part_007"} ->
         Box(g.posX, g.posY, Add(g.posX, g.width), Add(g.posY, g.height))
    [] renderer = "CircleDrawer.js" ->
         Box(Num(0), Num(0), Twice(g.radius), Twice(g.radius))
    [] renderer = "part_006" ->
         Box(Sub(g.posX, g.radius), Sub(g.posY, g.radius),
             Add(g.posX, g.radius), Add(g.posY, g.radius))
    [] OTHER ->
         Box(g.borderWidth, g.borderWidth,
             Sub(triangleCanvas(g), g.borderWidth), Sub(triangleCanvas(g), g.borderWidth))

\* a render call whose background is the gradient alone.  gradientColors
\* left unassigned makes forEach throw a TypeError; a single colour gives the
\* offset 0 / 0, and whether addColorStop throws on NaN is the canvas
\* library's choice (nanThrows).  A call that does not throw fills the path;
\* an offscreen renderer then stores the bitmap and composites it.
fillWithGradient(renderer, gradient, g, nanThrows) ==
  LET resolved == gradientColors(gradient)
      threw == \/ ~resolved.defined
               \/ (Len(resolved.colors) = 1 /\ nanThrows)
  IN [done |-> TRUE, threw |-> threw,
      line |-> IF resolved.defined
               THEN gradientLine(renderer, g, gradientAngle(gradient))
               ELSE NoLine,
      stops |-> IF threw THEN << >> ELSE addColorStops(resolved.colors),
      filled |-> ~threw,
      stored |-> ~threw /\ renderer \in Offscreen,
      composited |-> ~threw]

(***************************************************************************)
(* Gradient fills applied to bounded gradient options                      *)
(***************************************************************************)
MaxColors == 3

red == <<"r", "e", "d">>

blue == <<"b", "l", "u", "e">>

ColorLists == UNION {[1..m -> {red, blue}] : m \in 0..MaxColors}

\* colours joined by single spaces, as the string form is written
RECURSIVE joinColors(_)
joinColors(colors) ==
  IF Len(colors) = 1 THEN colors[1]
  ELSE colors[1] \o <<" ">> \o joinColors(Tail(colors))

GradientAngles == {0, 90, 180, 270}

\* stops that state no offset, stops that state the even offsets, and stops
\* that state offsets bunched towards the start: (i - 1) / n for the first
\* n - 1 stops and 1 for the last
StopLists(l) ==
  { [i \in 1..Len(l) |-> Stop(l[i], FALSE, Frac(0, 0))],
    [i \in 1..Len(l) |-> Stop(l[i], Len(l) > 1, Frac(i - 1, Len(l) - 1))],
    [i \in 1..Len(l) |-> Stop(l[i], TRUE,
                             IF i = Len(l) THEN Frac(1, 1) ELSE Frac(i - 1, Len(l))) ] }

Gradients ==
  { GradientList(ColorArray(l)) : l \in ColorLists }
  \cup { GradientList(ColorString(joinColors(l))) : l \in ColorLists \ {<< >>} }
  \cup { GradientObject(h, IF h THEN a ELSE 0, StopArray(s), NoColors) :
           h \in BOOLEAN, a \in GradientAngles,
           s \in UNION {StopLists(l) : l \in ColorLists} }
  \cup { GradientObject(TRUE, a, NoStops, c) :
           a \in GradientAngles,
           c \in {NoColors, ColorString(<< >>)}
                 \cup {ColorArray(l) : l \in ColorLists}
                 \cup {ColorString(joinColors(l)) : l \in ColorLists \ {<< >>}} }

GradientGeometries ==
  { [posX |-> Num(Px(10)), posY |-> Num(Px(20)), width |-> Num(Px(100)),
     height |-> Num(Px(40)), radius |-> Num(Px(30)), size |-> Num(Px(50)),
     borderWidth |-> Num(Px(bw))] : bw \in {0, 2} }

GradientArgs ==
  { [fn |-> "gradient", renderer |-> r, gradient |-> gr, geometry |-> g,
     nanThrows |-> t] :
      r \in Renderers, gr \in Gradients, g \in GradientGeometries, t \in BOOLEAN }

InitGradient == arg \in GradientArgs /\ res = NoResult /\ RestIdle

ApplyFillWithGradient ==
  /\ arg.fn = "gradient" /\ ~res.done
  /\ res' = fillWithGradient(arg.renderer, arg.gradient, arg.geometry, arg.nanThrows)
  /\ UNCHANGED <<arg, version, cache, now, errorImage, task, out,
                 canvas, lastReference, returned, prev, failedAt>>

NextGradient == ApplyFillWithGradient

SpecGradient == InitGradient /\ [][NextGradient]_vars

\* C11: a stop that states an offset is added at that offset; only stops
\* that state none are placed evenly, the i-th of n at (i - 1) / (n - 1).
C11_StopsAtStatedOffsets ==
  (res.done /\ arg.fn = "gradient" /\ ~res.threw) =>
    \A i \in 1..Len(res.stops) :
      IF arg.gradient.k = "object" /\ arg.gradient.stops.k = "array"
         /\ arg.gradient.stops.a[i].stated
      THEN SameOffset(res.stops[i].offset, arg.gradient.stops.a[i].offset)
      ELSE res.stops[i].offset = Frac(i - 1, Len(res.stops) - 1)

\* C12: with angle 0 both ends of the gradient line are on the vertical line
\* through the centre of the filled shape's bounding box, one at its top and
\* one at its bottom, in the context the shape is filled in.
C12_AngleZeroVerticalThroughCentre ==
  (res.done /\ arg.fn = "gradient" /\ res.line # NoLine
     /\ gradientAngle(arg.gradient) = 0) =>
    LET box == fillPath(arg.renderer, arg.geometry)
    IN /\ Twice(res.line.x0) = Add(box.left, box.right)
       /\ Twice(res.line.x1) = Add(box.left, box.right)
       /\ {res.line.y0, res.line.y1} = {box.top, box.bottom}

\* a gradient option that gives no colour at all
ZeroStops(gradient) ==
  ~gradientColors(gradient).defined \/ gradientColors(gradient).colors = << >>

\* C20: a gradient that resolves to zero stops makes the render call throw,
\* and nothing is stored in the elements partition or drawn on the target.
C20_ZeroStopsRejected ==
  (res.done /\ arg.fn = "gradient" /\ ZeroStops(arg.gradient)) =>
    (res.threw /\ ~res.stored /\ ~res.composited)

StoredFetched(c, key) ==
  /\ "images" \in DOMAIN c /\ key \in DOMAIN c["images"]
  /\ valueOf(version, c["images"][key]) = LoadedImage(key)

\* C14: a successfully fetched image, once stored, stays a hit through any
\* later calls and any passage of time while its partition is not cleared:
\* no getCachedImage call starts a fetch for a key whose entry holds one.
C14_FetchedStaysHit ==
  [][(task = Idle /\ task' # Idle /\ task'.op = "getCachedImage")
       => ~StoredFetched(cache, task'.key)]_vars

\* C15: every render call that returns, on a hit as on a miss, returns a
\* descriptor whose x, y, width and height are numbers.
C15_DescriptorHasBox ==
  (out.op = "draw" /\ ~out.threw) =>
    /\ out.descriptor.k = "object"
    /\ \A f \in {"x", "y", "width", "height"} :
         out.descriptor.d[f].k \in {"number", "subunit"}

(***************************************************************************)
(* pixelParser over an option bag as the caller wrote it: a function from  *)
(* the keys that were given to their values                                *)
(***************************************************************************)
\* an object (a gradient spec, a captured descriptor); s names it
JsObject(name) == [k |-> "object", n |-> 0, s |-> name]

\* if (value): objects and arrays are truthy
isTruthy(v) == v.k \in {"object", "array"} \/ Truthy(v)

\* const transformedOptions = {}; for (const [key, value] of
\* Object.entries(options)) if (value) transformedOptions[key] = pxToNumber(value)
transformedOptions(options) ==
  [key \in {k \in DOMAIN options : isTruthy(options[k])} |-> pxToNumber(options[key])]

(***************************************************************************)
(* Unit parser: pxToNumber and pixelParser applied to bounded inputs       *)
(***************************************************************************)
MaxTokens == 3

\* tokens as written, with the number each one stands for; px = -1 for a
\* token that is no number
PxTokens ==
  { [text |-> <<"4">>, px |-> 4], [text |-> <<"1", "2", "p", "x">>, px |-> 12],
    [text |-> <<"a", "b", "c", "p", "x">>, px |-> 0 - 1],
    [text |-> <<"r", "e", "d">>, px |-> 0 - 1],
    [text |-> << >>, px |-> 0 - 1] }

PxLists == UNION {[1..m -> PxTokens] : m \in 1..MaxTokens}

PxArgs ==
  { [fn |-> "pxToNumber", written |-> l, input |-> Str(joinTokens(l, <<" ">>))] :
      l \in PxLists }
  \cup
  { [fn |-> "pxToNumber", written |-> << >>, input |-> v] :
      v \in {Num(0), Num(Px(7)), Undefined, Null} }

\* the value a key is left out with when the bags are enumerated
Absent == [k |-> "absent", n |-> 0, s |-> << >>]

auto == <<"a", "u", "t", "o">>

BagChoices ==
  [x : {Absent, Num(0), Num(Px(10)), Str(<<"1", "0", "p", "x">>), Str(center)},
   width : {Absent, Num(0), Num(Px(50)), Str(<<"5", "0", "p", "x">>)},
   borderWidth : {Absent, Num(0), Num(Px(2))},
   backgroundColor : {Absent, Str(red), Str(<< >>)},
   backgroundImage : {Absent, Str(<<"h", "t", "t", "p", ":", "/", "/", "u", "1">>)},
   backgroundGradient : {Absent, JsObject(<<"g">>)},
   reference : {Absent, Str(auto), JsObject(<<"d">>)},
   align : {Absent, Str(center)}]

\* the keys whose values are colours, URLs, gradient objects, references and
\* enum strings
PassedThrough ==
  {"backgroundColor", "backgroundImage", "backgroundGradient", "reference", "align"}

Bag(choice) == [key \in {k \in DOMAIN choice : choice[k] # Absent} |-> choice[key]]

ParserArgs == { [fn |-> "pixelParser", options |-> Bag(c)] : c \in BagChoices }

InitParse == arg \in PxArgs \cup ParserArgs /\ res = NoResult /\ RestIdle

ApplyPxToNumber ==
  /\ arg.fn = "pxToNumber" /\ ~res.done
  /\ res' = [done |-> TRUE, value |-> pxToNumber(arg.input)]
  /\ UNCHANGED <<arg, version, cache, now, errorImage, task, out,
                 canvas, lastReference, returned, prev, failedAt>>

ApplyPixelParser ==
  /\ arg.fn = "pixelParser" /\ ~res.done
  /\ res' = [done |-> TRUE, value |-> transformedOptions(arg.options)]
  /\ UNCHANGED <<arg, version, cache, now, errorImage, task, out,
                 canvas, lastReference, returned, prev, failedAt>>

NextParse ==
  \/ ApplyPxToNumber
  \/ ApplyPixelParser

SpecParse == InitParse /\ [][NextParse]_vars

\* the tokens of the input all stand for numbers
AllNumeric(tokens) == \A i \in 1..Len(tokens) : tokens[i].px >= 0

\* v is NaN or an array that holds one
HoldsNaN(v) ==
  \/ v.k = "NaN"
  \/ v.k = "array" /\ \E i \in 1..Len(v.a) : v.a[i].k = "NaN"

\* C16: pxToNumber of a string gives the number of its single numeric token,
\* the array of the numbers in order when there are several numeric tokens,
\* and the string itself as soon as one token is no number, "abcpx"
\* included; it never gives NaN.
C16_PxToNumberNeverNaN ==
  (res.done /\ arg.fn = "pxToNumber" /\ arg.input.k = "string"
     /\ arg.input.s # << >>) =>
    /\ ~HoldsNaN(res.value)
    /\ IF AllNumeric(arg.written)
       THEN IF Len(arg.written) = 1
            THEN res.value = Num(Px(arg.written[1].px))
            ELSE res.value = Arr([i \in 1..Len(arg.written) |->
                                    Num(Px(arg.written[i].px))])
       ELSE res.value = arg.input

\* C17: pixelParser returns an object with exactly the keys of the bag it
\* was given, a key whose value is the number 0 included, and hands colours,
\* URLs, gradient objects, references and enum strings back unchanged.
C17_ParserKeepsKeys ==
  (res.done /\ arg.fn = "pixelParser") =>
    /\ DOMAIN res.value = DOMAIN arg.options
    /\ \A key \in DOMAIN arg.options \cap PassedThrough :
         res.value[key] = arg.options[key]

(***************************************************************************)
(* parseBorderRadius applied to shorthands that hold a token that is no    *)
(* number                                                                  *)
(***************************************************************************)
\* px = -1 for the token that is no number
MixedTokens ==
  { [text |-> <<"4">>, px |-> 4], [text |-> <<"1", "6", "p", "x">>, px |-> 16],
    [text |-> <<"a", "b", "c">>, px |-> 0 - 1] }

MixedLists == UNION {[1..m -> MixedTokens] : m \in 1..MaxParts}

HasInvalidToken(tokens) == \E i \in 1..Len(tokens) : tokens[i].px < 0

InvalidRadiusArgs ==
  { [fn |-> "parseBorderRadius", form |-> "string", written |-> l,
     input |-> Str(joinTokens(l, <<" ">>))] :
      l \in {m \in MixedLists : HasInvalidToken(m)} }
  \cup
  { [fn |-> "parseBorderRadius", form |-> "array", written |-> l,
     input |-> Arr([i \in 1..Len(l) |-> Str(l[i].text)])] :
      l \in {m \in MixedLists : HasInvalidToken(m)} }

InitRadiusAny == arg \in RadiusArgs \cup InvalidRadiusArgs /\ res = NoResult /\ RestIdle

SpecRadiusAny == InitRadiusAny /\ [][NextRadius]_vars

\* C18: a borderRadius that holds a token that is no number comes back as
\* (0,0,0,0), so none of the four radii roundRect gets is NaN.
C18_InvalidRadiusZeroed ==
  (res.done /\ arg.fn = "parseBorderRadius" /\ HasInvalidToken(arg.written)) =>
    /\ res.radii.values = ZeroRadii
    /\ \A i \in 1..4 : res.radii.values[i].k # "NaN"

\* C19: when x is "center" and the reference meant has no x, calculatePosition
\* gives posX = 0, for every shape, and never NaN.
C19_MissingFieldGivesZero ==
  (res.done /\ arg.fn = "calculatePosition" /\ MeantReference(arg).k = "object"
     /\ arg.x.k = "string" /\ arg.x.s \in CenterSpellings
     /\ MeantReference(arg).d.x.k = "undefined") =>
    res.pos.posX = Num(0)

\* C21: two Image() calls that differ in width, height, color or opacity use
\* different keys: the image stored under the key an Image() call returns
\* is the one processed with that call's own parameters.
C21_KeyCoversProcessing ==
  (out.op = "Image" /\ out.outcome = "returned") =>
    out.stored.edit = transformed(LoadedImage(out.opts.imgUrl), out.opts).edit

(***************************************************************************)
(* The contexts a CanvasDrawer and its shape drawers hold.  "constructed"  *)
(* is the context of the canvas the constructor creates; every shape       *)
(* drawer is given it once, in the constructor of the CanvasDrawer.        *)
(***************************************************************************)
\* the shape drawers each CanvasDrawer class creates
shapeDrawers(drawer) ==
  IF drawer = "part_000" THEN {"rectangle", "circle"}
  ELSE {"rectangle", "circle", "line", "triangle", "text"}

\* the methods of the shape drawer classes: a constructor and the draw method
drawerMethods(shape) ==
  CASE shape = "rectangle" -> {"constructor", "drawRect"}
    [] shape = "circle" -> {"constructor", "drawCircle"}
    [] shape = "line" -> {"constructor", "drawLine"}
    [] shape = "triangle" -> {"constructor", "drawTriangle"}
    [] OTHER -> {"constructor", "drawText"}

\* new CanvasDrawer(width, height)
newCanvasDrawer(drawer) ==
  [drawer |-> drawer, ctx |-> "constructed",
   held |-> [s \in shapeDrawers(drawer) |-> "constructed"],
   setContext |-> "never", calls |-> 0]

\* setContext(ctx): this.ctx = ctx; this.canvas = ctx.canvas; part_001 goes
\* on to call setContext of its rectangle and circle drawers, and a call of
\* a method the class does not have throws
setContext(c, ctx) ==
  LET assigned == [c EXCEPT !.ctx = ctx]
  IN IF c.drawer = "part_000"
     THEN [assigned EXCEPT !.setContext = "returned"]
     ELSE IF "setContext" \in drawerMethods("rectangle")
             /\ "setContext" \in drawerMethods("circle")
     THEN [assigned EXCEPT !.setContext = "returned",
                           !.held = [s \in DOMAIN c.held |->
                                       IF s \in {"rectangle", "circle"} THEN ctx
                                       ELSE c.held[s]]]
     ELSE [assigned EXCEPT !.setContext = "threw"]

GivenContexts == {"ctx1", "ctx2", "ctx3"}

InitContext ==
  /\ canvas \in {newCanvasDrawer(dr) : dr \in {"part_000", "part_001"}}
  /\ out = NoCall
  /\ version = "none" /\ cache = EmptyMap /\ now = 0
  /\ errorImage = UndefinedImage /\ task = Idle /\ failedAt = EmptyMap
  /\ lastReference = NullRef /\ returned = NullRef /\ prev = NoCall
  /\ FunctionsIdle

SetContext ==
  /\ canvas.calls < MaxCalls
  /\ \E ctx \in GivenContexts :
       /\ canvas' = [setContext(canvas, ctx) EXCEPT !.calls = @ + 1]
       /\ out' = [op |-> "setContext", ctx |-> ctx,
                  outcome |-> setContext(canvas, ctx).setContext]
  /\ UNCHANGED <<version, cache, now, errorImage, task, failedAt,
                 lastReference, returned, prev, FunctionVars>>

\* a draw call: the shape drawer resolves "center" against this.ctx.canvas
\* and composites with this.ctx.drawImage, this being the shape drawer
DrawOnHeld ==
  /\ canvas.calls < MaxCalls
  /\ \E shape \in shapeDrawers(canvas.drawer) :
       out' = [op |-> "draw", shape |-> shape, target |-> canvas.held[shape],
               centredOn |-> canvas.held[shape]]
  /\ canvas' = [canvas EXCEPT !.calls = @ + 1]
  /\ UNCHANGED <<version, cache, now, errorImage, task, failedAt,
                 lastReference, returned, prev, FunctionVars>>

\* getBuffer(mimeType): this.canvas.toBuffer(mimeType), this.canvas being the
\* canvas of the context last assigned
EncodeCanvas ==
  /\ canvas.calls < MaxCalls
  /\ out' = [op |-> "getBuffer", encoded |-> canvas.ctx]
  /\ canvas' = [canvas EXCEPT !.calls = @ + 1]
  /\ UNCHANGED <<version, cache, now, errorImage, task, failedAt,
                 lastReference, returned, prev, FunctionVars>>

\* getContext() of part_000: return this.ctx
GetContext ==
  /\ canvas.calls < MaxCalls /\ canvas.drawer = "part_000"
  /\ out' = [op |-> "getContext", ctx |-> canvas.ctx]
  /\ canvas' = [canvas EXCEPT !.calls = @ + 1]
  /\ UNCHANGED <<version, cache, now, errorImage, task, failedAt,
                 lastReference, returned, prev, FunctionVars>>

NextContext ==
  \/ SetContext
  \/ DrawOnHeld
  \/ EncodeCanvas
  \/ GetContext

SpecContext == InitContext /\ [][NextContext]_vars

\* C22: once setContext(ctx) has returned normally, every draw call of the
\* CanvasDrawer composites onto ctx and centres against ctx's canvas.
C22_DrawsOnGivenContext ==
  (out.op = "draw" /\ canvas.setContext = "returned") =>
    (out.target = canvas.ctx /\ out.centredOn = canvas.ctx)

(***************************************************************************)
(* Cache hit against cache miss: one call issued twice in a row, the first *)
(* drawing the bitmap and the second finding it.                           *)
(***************************************************************************)
\* the call in `out` repeats the call before it, which drew and stored the
\* bitmap; both resolved to the same position and size
HitAfterMiss ==
  /\ out.op = "draw" /\ prev.op = "draw"
  /\ out.shape = prev.shape /\ out.opts = prev.opts
  /\ out.geometry = prev.geometry
  /\ prev.drew /\ ~prev.threw
  /\ out.hit /\ ~out.threw

\* C23: for every shape renderer the descriptor returned on a cache hit equals,
\* field by field, the descriptor the same call returns on a cache miss.
C23_HitDescriptorEqualsMiss ==
  HitAfterMiss => (out.descriptor = prev.descriptor)

\* C24: for every shape renderer the target-surface coordinates at which the
\* bitmap is composited on a cache hit equal the coordinates at which the same
\* call composites it on a cache miss.
C24_HitCompositedWhereMissWas ==
  HitAfterMiss => (out.composited = prev.composited)

\* the same, for the cached shapes other than the triangle

\* where the left (top) edge of a box of side size + 2 * borderWidth lies when
\* the box is centred on a surface of the given extent
centredEdge(extent, size, borderWidth) ==
  Half(Sub(extent, Add(size, Twice(borderWidth))))

\* C25: a triangle of size s and border width b drawn with x = "center" and
\* no reference on a surface of width W has its composited box, of width
\* s + 2b, horizontally centred: its left edge and the descriptor's x are at
\* (W - (s + 2b)) / 2; likewise vertically for y = "center".
C25_TriangleBoxCentred ==
  (out.op = "draw" /\ out.shape = "triangle" /\ ~out.threw
     /\ out.opts.reference = NoRef) =>
    LET o == triangleOptions(out.opts)
    IN /\ isCenter(o.x) =>
            /\ out.composited.x = centredEdge(canvas.W, o.size, o.borderWidth)
            /\ out.descriptor.d.x = centredEdge(canvas.W, o.size, o.borderWidth)
       /\ isCenter(o.y) =>
            /\ out.composited.y = centredEdge(canvas.H, o.size, o.borderWidth)
            /\ out.descriptor.d.y = centredEdge(canvas.H, o.size, o.borderWidth)

(***************************************************************************)
(* The order in which a renderer paints its offscreen canvas on a miss     *)
(***************************************************************************)
\* one painting operation: what is painted, whether a clip to the shape's
\* outline is in force, and which loader the painted image came through
Layer(what, clipped, through) ==
  [what |-> what, clipped |-> clipped, through |-> through]

Only(condition, layer) == IF condition THEN <<layer>> ELSE << >>

\* RectDrawer.drawRect: image under a clip that stays in force, fill, border
rectLayers(o) ==
  Only(o.backgroundImage # "", Layer("image", TRUE, "getCachedImage"))
  \o Only(fillOf(o) # "", Layer("fill", o.backgroundImage # "", ""))
  \o Only(strokeOf(o) # "", Layer("stroke", o.backgroundImage # "", ""))

\* CircleDrawer.drawCircle: the same three blocks
circleLayers(o) ==
  Only(o.backgroundImage # "", Layer("image", TRUE, "getCachedImage"))
  \o Only(fillOf(o) # "", Layer("fill", o.backgroundImage # "", ""))
  \o Only(strokeOf(o) # "", Layer("stroke", o.backgroundImage # "", ""))

\* TriangleDrawer.drawTriangle: the fill always, then the image if it loaded,
\* then the stroke always
triangleLayers(o, picture) ==
  <<Layer("fill", FALSE, "")>>
  \o Only(o.backgroundImage # "" /\ picture # UndefinedImage,
          Layer("image", FALSE, "loadImage"))
  \o <<Layer("stroke", FALSE, "")>>

\* the painting operations of the draw call observed in `out`
layersDrawn ==
  CASE out.shape = "rectangle" -> rectLayers(rectOptions(out.opts))
    [] out.shape = "circle" -> circleLayers(pixelParser(out.opts))
    [] out.shape = "triangle" ->
         triangleLayers(triangleOptions(out.opts), out.bitmap.picture)
    [] OTHER -> << >>

\* image first, clipped and through the fetched-image cache; fill before
\* border; border last
InStatedOrder(layers) ==
  /\ \A i \in DOMAIN layers :
       layers[i].what = "image" =>
         (i = 1 /\ layers[i].clipped /\ layers[i].through = "getCachedImage")
  /\ \A i, j \in DOMAIN layers :
       (layers[i].what = "fill" /\ layers[j].what = "stroke") => i < j
  /\ \A i \in DOMAIN layers : layers[i].what = "stroke" => i = Len(layers)

\* C26: on a cache miss every shape renderer (rectangle, circle, triangle)
\* draws the background image first, clipped to the shape's outline and
\* obtained through the fetched-image cache, then the fill, then the border.
C26_ImageFillBorder ==
  (out.op = "draw" /\ out.drew /\ ~out.threw
     /\ out.shape \in {"rectangle", "circle", "triangle"})
    => InStatedOrder(layersDrawn)

(***************************************************************************)
(* Two drawRect calls in flight at once.  A call runs from its start to    *)
(* `await getCachedImage(backgroundImage)` in one step, and from the       *)
(* resumption to its return in one step: nothing else runs in between.     *)
(***************************************************************************)
Sessions == {1, 2}

RaceInputs ==
  { [EmptyOptions EXCEPT !.x = N(10), !.y = N(10), !.width = N(w),
       !.height = N(60), !.backgroundImage = "u1", !.backgroundColor = "red"] :
      w \in {100, 80} }

\* a call that has not started
NotStarted ==
  [stage |-> "idle", opts |-> EmptyOptions, key |-> "", missed |-> FALSE,
   image |-> UndefinedImage, offScreenCanvas |-> NoBitmap, composited |-> NoBitmap]

\* createCanvas(divWidth, divHeight): nothing painted yet
BlankCanvas(o, g) ==
  Bitmap([shape |-> "blank", width |-> g.divWidth, height |-> g.divHeight],
         UndefinedImage)

\* the image, the fill and the border painted on an offscreen canvas
painted(o, g, image) == Bitmap(rectPaint(o, g), image)

rectGeometry(options) ==
  positionOf("rectangle", rectOptions(options), rectOptions(options).x,
             rectOptions(options).y)

InitRace ==
  /\ version = "CacheManager.js" /\ cache = InitialCache(version)
  /\ task = [s \in Sessions |-> NotStarted]
  /\ out = [op |-> "race", finished |-> << >>]
  /\ now = 0 /\ errorImage = UndefinedImage /\ failedAt = EmptyMap
  /\ SessionIdle /\ FunctionsIdle

RaceFrame == UNCHANGED <<version, now, errorImage, failedAt, canvas,
                         lastReference, returned, prev, FunctionVars>>

\* drawRect up to its first suspension: a hit composites the stored bitmap and
\* returns; a miss creates the offscreen canvas and awaits getCachedImage
StartRender ==
  \E s \in Sessions, options \in RaceInputs :
    /\ task[s].stage = "idle"
    /\ \E o \in {rectOptions(options)}, g \in {rectGeometry(options)} :
         \E cacheKey \in {rectKey(o, g)} :
           IF present(cache, "elements", cacheKey)
           THEN /\ task' = [task EXCEPT ![s] =
                              [NotStarted EXCEPT !.stage = "returned",
                                 !.opts = options, !.key = cacheKey,
                                 !.composited = cache["elements"][cacheKey]]]
                /\ out' = [out EXCEPT !.finished = Append(@, s)]
           ELSE /\ task' = [task EXCEPT ![s] =
                              [NotStarted EXCEPT
                                 !.stage = IF present(cache, "images", o.backgroundImage)
                                           THEN "resuming" ELSE "loading",
                                 !.opts = options, !.key = cacheKey,
                                 !.missed = TRUE,
                                 !.image = IF present(cache, "images", o.backgroundImage)
                                           THEN cache["images"][o.backgroundImage]
                                           ELSE UndefinedImage,
                                 !.offScreenCanvas = BlankCanvas(o, g)]]
                /\ out' = out
    /\ cache' = cache
    /\ RaceFrame

\* const value = await loadFunction(); cache[type][key] = value; return value
ImageLoads ==
  \E s \in Sessions :
    /\ task[s].stage = "loading"
    /\ \E url \in {task[s].opts.backgroundImage} :
         /\ cache' = store(cache, "images", url, LoadedImage(url))
         /\ task' = [task EXCEPT ![s].stage = "resuming",
                                 ![s].image = LoadedImage(url)]
    /\ out' = out
    /\ RaceFrame

\* loadFunction rejects: the catch block awaits loadImage(imageError404URL)
ImageFails ==
  \E s \in Sessions :
    /\ task[s].stage = "loading"
    /\ task' = [task EXCEPT ![s].stage = "loadingErrorImage"]
    /\ UNCHANGED <<cache, out>>
    /\ RaceFrame

\* cache[type][key] = errorImage; return errorImage
ErrorImageLoads ==
  \E s \in Sessions :
    /\ task[s].stage = "loadingErrorImage"
    /\ cache' = store(cache, "images", task[s].opts.backgroundImage, Placeholder)
    /\ task' = [task EXCEPT ![s].stage = "resuming", ![s].image = Placeholder]
    /\ out' = out
    /\ RaceFrame

\* loadImage(imageError404URL) rejects: getCachedImage and drawRect reject
ErrorImageFails ==
  \E s \in Sessions :
    /\ task[s].stage = "loadingErrorImage"
    /\ task' = [task EXCEPT ![s].stage = "threw"]
    /\ out' = [out EXCEPT !.finished = Append(@, s)]
    /\ cache' = cache
    /\ RaceFrame

\* drawRect from the resumption to its return: paint the offscreen canvas,
\* cache.elements[cacheKey] = offScreenCanvas, composite it
FinishRender ==
  \E s \in Sessions :
    /\ task[s].stage = "resuming"
    /\ \E o \in {rectOptions(task[s].opts)}, g \in {rectGeometry(task[s].opts)} :
         \E offScreenCanvas \in {painted(o, g, task[s].image)} :
           /\ cache' = store(cache, "elements", task[s].key, offScreenCanvas)
           /\ task' = [task EXCEPT ![s].stage = "returned",
                                   ![s].offScreenCanvas = offScreenCanvas,
                                   ![s].composited = offScreenCanvas]
    /\ out' = [out EXCEPT !.finished = Append(@, s)]
    /\ RaceFrame

NextRace ==
  \/ StartRender
  \/ ImageLoads
  \/ ImageFails
  \/ ErrorImageLoads
  \/ ErrorImageFails
  \/ FinishRender

SpecRace == InitRace /\ [][NextRace]_vars

\* a bitmap that carries the image, the fill and the border of a rectangle
FullyDrawn(b) ==
  /\ b.paint.shape = "rectangle"
  /\ b.picture # UndefinedImage

\* both calls found the same key missing and each went to the image fetch
Interleaved ==
  /\ \A s \in Sessions : task[s].missed
  /\ task[1].key = task[2].key

BothOver == \A s \in Sessions : task[s].stage \in {"returned", "threw"}

\* C27: when two render calls for the same uncached key interleave at the
\* image fetch, both complete without error, each composites a fully drawn
\* bitmap, and afterwards the elements partition holds for that key the fully
\* drawn bitmap written by the call that finished last; the partition never
\* holds a partially drawn bitmap.
C27_RaceIsHarmless ==
  /\ \A k \in DOMAIN cache["elements"] : FullyDrawn(cache["elements"][k])
  /\ (Interleaved /\ BothOver) =>
       /\ \A s \in Sessions :
            task[s].stage = "returned" /\ FullyDrawn(task[s].composited)
       /\ present(cache, "elements", task[1].key)
       /\ cache["elements"][task[1].key]
            = task[out.finished[Len(out.finished)]].composited

(***************************************************************************)
(* The drawing functions of lib (RectDrawer of part_009, CircleDrawer of   *)
(* part_006, ButtonDrawer of part_007, drawText of lib/drawer/TextDrawer)  *)
(* and the drawing state of the context they are handed.  An opacity is    *)
(* the text of the number; "" stands for an option that was not given.     *)
(***************************************************************************)
\* a fresh 2d context: globalAlpha 1.0 and an empty stack of saved states
newContext == [globalAlpha |-> "1.0", saved |-> << >>]

\* ctx.save()
save(ctx) == [ctx EXCEPT !.saved = Append(@, ctx.globalAlpha)]

\* ctx.restore(): pops the saved state, does nothing on an empty stack
restore(ctx) ==
  IF ctx.saved = << >> THEN ctx
  ELSE [globalAlpha |-> ctx.saved[Len(ctx.saved)],
        saved |-> SubSeq(ctx.saved, 1, Len(ctx.saved) - 1)]

\* opacity = 1.0 in the destructuring of the options
opacityOr(opacity) == IF opacity = "" THEN "1.0" ELSE opacity

\* what a drawing function comes to: the context as it leaves it, whether it
\* threw, and the globalAlpha its shape was painted with
Painted(ctx, alpha) == [ctx |-> ctx, threw |-> FALSE, renderedAt |-> alpha]

Rethrown(ctx) == [ctx |-> ctx, threw |-> TRUE, renderedAt |-> ""]

\* the background image of a call: none asked for, loaded, or the load rejects
BackgroundLoads == {"none", "loaded", "rejects"}

\* RectDrawer(ctx, options) of part_009
RectDrawer(ctx, opacity, image) ==
  LET set == [ctx EXCEPT !.globalAlpha = opacityOr(opacity)]
  IN IF image = "rejects" THEN Rethrown(save(set))
     ELSE Painted(restore(save(set)), save(set).globalAlpha)

\* CircleDrawer(ctx, options) of part_006: reads no opacity option
CircleDrawer(ctx, opacity, image) ==
  IF image = "rejects" THEN Rethrown(save(ctx))
  ELSE Painted(restore(save(ctx)), save(ctx).globalAlpha)

\* ButtonDrawer(ctx, options) of part_007
ButtonDrawer(ctx, opacity, image) ==
  LET set == [ctx EXCEPT !.globalAlpha = opacityOr(opacity)]
  IN IF image = "rejects" THEN Rethrown(save(set))
     ELSE Painted(restore(save(set)), save(set).globalAlpha)

\* drawText(ctx, options) of lib/drawer/TextDrawer.js: no save, no restore
drawTextFunction(ctx, opacity, image) ==
  LET set == [ctx EXCEPT !.globalAlpha = opacityOr(opacity)]
  IN Painted(set, set.globalAlpha)

Opacities == {"", "0.02", "0.5"}

InitAlpha ==
  /\ canvas = [W |-> N(200), H |-> N(120), drawer |-> "lib", calls |-> 0,
               ctx |-> newContext]
  /\ out = NoCall
  /\ version = "none" /\ cache = EmptyMap /\ now = 0
  /\ errorImage = UndefinedImage /\ task = Idle /\ failedAt = EmptyMap
  /\ lastReference = NullRef /\ returned = NullRef /\ prev = NoCall
  /\ FunctionsIdle

\* one call of a drawing function on the shared context
Called(fn, opacity, result) ==
  /\ out' = [op |-> "call", fn |-> fn, opacity |-> opacity,
             before |-> canvas.ctx.globalAlpha, threw |-> result.threw,
             renderedAt |-> result.renderedAt]
  /\ canvas' = [canvas EXCEPT !.ctx = result.ctx, !.calls = @ + 1]
  /\ prev' = out
  /\ UNCHANGED <<cache, lastReference, returned, CacheVars, FunctionVars>>

CallRectDrawer ==
  /\ canvas.calls < MaxCalls
  /\ \E opacity \in Opacities, image \in BackgroundLoads :
       Called("drawRect", opacity, RectDrawer(canvas.ctx, opacity, image))

CallCircleDrawer ==
  /\ canvas.calls < MaxCalls
  /\ \E image \in BackgroundLoads :
       Called("drawCircle", "", CircleDrawer(canvas.ctx, "", image))

CallButtonDrawer ==
  /\ canvas.calls < MaxCalls
  /\ \E opacity \in Opacities, image \in BackgroundLoads :
       Called("drawButton", opacity, ButtonDrawer(canvas.ctx, opacity, image))

CallDrawText ==
  /\ canvas.calls < MaxCalls
  /\ \E opacity \in Opacities :
       Called("drawText", opacity, drawTextFunction(canvas.ctx, opacity, "none"))

NextAlpha ==
  \/ CallRectDrawer
  \/ CallCircleDrawer
  \/ CallButtonDrawer
  \/ CallDrawText

SpecAlpha == InitAlpha /\ [][NextAlpha]_vars

\* C28: a draw call's opacity applies to that call only: after drawRect,
\* drawButton or drawText returns, the context's globalAlpha equals its value
\* before the call, and a shape drawn without an opacity option is rendered
\* at full opacity whatever was drawn before it.
C28_OpacityStaysInCall ==
  (out.op = "call" /\ ~out.threw) =>
    /\ out.fn \in {"drawRect", "drawButton", "drawText"} =>
         canvas.ctx.globalAlpha = out.before
    /\ out.opacity = "" => out.renderedAt = "1.0"

(***************************************************************************)
(* Where the segment of a line lands on the main canvas                    *)
(***************************************************************************)
\* moveTo(lineWidth, lineWidth); lineTo(deltaX + lineWidth, deltaY + lineWidth)
strokeOffscreen(paint) ==
  Resolved(At(paint.lineWidth, paint.lineWidth),
           At(Add(paint.deltaX, paint.lineWidth), Add(paint.deltaY, paint.lineWidth)))

\* the stroke of a bitmap composited with its corner at `corner`
strokeOnTarget(paint, corner) ==
  Resolved(At(Add(corner.x, strokeOffscreen(paint).start.x),
              Add(corner.y, strokeOffscreen(paint).start.y)),
           At(Add(corner.x, strokeOffscreen(paint).end.x),
              Add(corner.y, strokeOffscreen(paint).end.y)))

\* C29: for every pair of endpoints, including endX < startX or endY < startY,
\* the segment drawLine renders on the target surface runs from
\* (startX, startY) to (endX, endY), and the returned descriptor's width and
\* height are non-negative.
C29_SegmentJoinsEndpoints ==
  (out.op = "draw" /\ out.shape = "line" /\ ~out.threw) =>
    /\ strokeOnTarget(out.bitmap.paint, out.composited)
         = Resolved(At(out.geometry.start.posX, out.geometry.start.posY),
                    At(out.geometry.end.posX, out.geometry.end.posY))
    /\ out.descriptor.d.width.n >= 0
    /\ out.descriptor.d.height.n >= 0

\* C30: hasCached and setCache work on a partition no operation has touched:
\* an Image() call that finds no entry, whether or not the images partition
\* was ever created, and whose URL loads, returns {url: key} with the
\* processed image stored under that key; it never throws out of hasCached.
C30_UntouchedPartitionUsable ==
  (version = "part_010" /\ out.op = "Image" /\ ~out.hadEntry
     /\ (out.loads = 0 \/ out.loadOk)) =>
    /\ out.outcome = "returned"
    /\ out.stored = transformed(LoadedImage(out.opts.imgUrl), out.opts)

====
